---- MODULE Spec2Model ----
(***************************************************************************)
(* StealthBrowserSession (src/browser_use/browser/stealth_session.py):     *)
(* the start()/stop() lifecycle of one session object driven by several    *)
(* asyncio tasks.  A task runs without interruption from one awaited       *)
(* suspension to the next, so every action below is the code between two   *)
(* suspension points of one coroutine.                                     *)
(***************************************************************************)
EXTENDS Integers, Sequences, FiniteSets, TLC

\* ---------------------------------------------------------------- bounds
NTasks == 2          \* asyncio tasks that call start()/stop() on the session
MaxCalls == 3        \* start()/stop() calls issued in one behaviour
MaxBrowsers == 4     \* browser objects that can exist (ids 1 and 2 are external)
MaxContexts == 5     \* context objects that can exist (ids 1..3 are external)
MaxNavCalls == 3     \* navigate()/refresh() calls issued in one behaviour
MaxCapCalls == 2     \* calls of the session's captcha and navigation methods together

Tasks == 1..NTasks
Browsers == 1..MaxBrowsers
Contexts == 1..MaxContexts
None == 0            \* Python None for an object reference or a pid

\* The browsers and contexts that exist before the session does: browser 1
\* with context 1, browser 2 with context 2, and context 3 whose .browser is
\* None.  The caller may pass either browser and context 1 or 3.
ExtBrowsers == {1, 2}
ExtContexts == {1, 2, 3}

\* The classes of captcha the solver tells apart, and the rank of each in its
\* solving order.
Types == {"recaptcha_v2", "recaptcha_v3", "hcaptcha", "other"}
Priority(y) ==
    CASE y = "recaptcha_v2" -> 1
      [] y = "recaptcha_v3" -> 2
      [] y = "hcaptcha" -> 3
      [] y = "other" -> 4

\* What a page presents when the session gets to it: nothing, one type with a
\* dedicated strategy or without one, several types.
PageMarkers ==
    {{}, {"recaptcha_v3"}, {"hcaptcha"}, {"recaptcha_v2", "other"}, Types}

\* The types the solver has a strategy of its own for.
DedicatedTypes == {"recaptcha_v2", "recaptcha_v3"}

\* `timeout=30` of _handle_page_captchas, the default of solve_captchas_manually
HandlerTimeout == 30

\* The timeouts a caller passes: none at all, or the default.
Timeouts == {0, HandlerTimeout}

\* API keys: None, and the strings a key can be: empty, the one passed to the
\* constructor, the one in the environment.
NoKey == "none"
Keys == {"", "configured", "environment"}

\* Keyword arguments of a constructor call: none at all; the browser_profile
\* every call passes; browser and browser_context left out, passed as None or
\* passed as the caller's browser 1 and context 1; the captcha options left
\* out or passed.
NoKwargs == <<>>
ProfileKwargs == "browser_profile" :> "profile"
ConnKwargs ==
    {NoKwargs,
     ("browser" :> None) @@ ("browser_context" :> None),
     ("browser" :> 1) @@ ("browser_context" :> 1)}
CaptchaKwargs ==
    {a @@ k : a \in {NoKwargs} \cup {"auto_solve_captchas" :> v : v \in BOOLEAN},
              k \in {NoKwargs, "capsolver_api_key" :> "configured"}}
CtorKwargs == {ProfileKwargs @@ c @@ k : c \in ConnKwargs, k \in CaptchaKwargs}

\* kw.get(name, default)
KwOr(kw, name, default) == IF name \in DOMAIN kw THEN kw[name] ELSE default

\* Python truth value of an Optional[str]
Truthy(k) == k # NoKey /\ k # ""

\* Permission names a profile may list, and the permitted-permissions lists
\* of the profiles considered (up to MaxPerms entries)
MaxPerms == 2
PermNames == {"geolocation", "clipboard-read-write", "notifications"}
PermLists == UNION {[1..n -> PermNames] : n \in 0..MaxPerms}

\* the permitted-permissions list of the profile in the specifications that
\* do not vary it
ProfilePermissions == <<"clipboard-read-write", "notifications">>

VARIABLES
    \* ---- fields of the session object
    initialized,        \* self.initialized
    browser,            \* self.browser            (a browser id or None)
    browser_context,    \* self.browser_context    (a context id or None)
    browser_pid,        \* self.browser_pid        (a pid or None)
    keep_alive,         \* self.browser_profile.keep_alive
    agent_current_page, \* self.agent_current_page (the page of context c, or None)
    human_current_page, \* self.human_current_page (foreground-page tracking)
    wss_url,            \* self.wss_url is set
    pw_browser,         \* self.playwright.browser (engine of the driver object)
    lock,               \* self._start_lock: the task holding it, or None
    waiters,            \* tasks suspended in self._start_lock.acquire(), FIFO
    \* ---- the coroutines
    pc,                 \* where each task is suspended
    op,                 \* the call each task is in or has last finished
    res,                \* how that call ended: "none", "ok", "raised"
    target,             \* stop(): the object whose close() is awaited, and the
                        \* browser_pid recorded when the await began
    baseline,           \* setup_new_browser_context: child_pids_before_launch
    calls,              \* number of start()/stop() calls issued so far
    queued,             \* the start() call of the task had to wait for the lock
    last,               \* the task whose coroutine ran the latest step
    \* ---- the world outside the session
    bstate,             \* browser id -> "none" | "live" | "dead"
    bkind,              \* browser id -> "ext" | "remote" | "engine"
    cstate,             \* context id -> "none" | "open" | "closed"
    cbrowser,           \* context id -> its .browser (None for a bare context)
    procs,              \* pids of the running child processes of this process
    \* ---- observations of the run
    termSignals,        \* pid -> number of terminate() signals delivered to it
    nStop,              \* number of stop() calls issued so far
    nClose,             \* number of close() calls issued by stop()
    nTerm,              \* number of terminate() calls issued by stop()
    how,                \* how the latest resolution got its browser:
                        \* "none" | "passed" | "wss" | "launch"
    nResolve,           \* number of start() calls that ran connection resolution
    nConnect,           \* number of firefox.connect() calls
    nLaunch,            \* number of local launches by setup_new_browser_context
    fault,              \* some step of some start() raised
    given,              \* the browser object the session was constructed with
    \* ---- captcha handling around navigation
    auto_solve_captchas, \* self.auto_solve_captchas
    captcha_solver,     \* self.captcha_solver is set
    npc,                \* where each task's navigate()/refresh() is suspended
    nop,                \* the navigation call each task is in or has last finished
    nres,               \* how that call ended: "none", "ok", "raised"
    navDone,            \* the underlying navigation of that call has completed
    hstate,             \* _handle_page_captchas of that call: "none", "running",
                        \* "finished", or "failed" (finished after an error it logged)
    handlerCalls,       \* invocations of _handle_page_captchas by that call
    solveCalls,         \* invocations of detect_and_solve_captchas by that call
    navCalls,           \* number of navigate()/refresh() calls issued so far
    \* ---- the solver's API key
    capsolver_api_key,  \* self.capsolver_api_key
    kwargs,             \* the keyword arguments the constructor was called with
    constructed,        \* "no": not yet; "given": earlier, arguments not recorded;
                        \* "session": by StealthBrowserSession(...); "agent": by
                        \* StealthAgent(...); "KeyError": StealthAgent(...) raised
    env_key,            \* os.getenv('CAPSOLVER_API_KEY')
    solver_key,         \* the capsolver_api_key self.captcha_solver was created with
    \* ---- solve_captchas_manually(), wait_for_captcha_resolution() and the solver
    markers,            \* captcha types the current page presents
    dedicated,          \* captcha types that have a usable dedicated strategy
    spc,                \* where each task's call into the solver is
    stimeout,           \* the timeout that call was given (-1: no call)
    expired,            \* the deadline of that call has passed
    sdet,               \* the types that call's detection produced
    styp,               \* the type its current or latest attempt is for
    skind,              \* that attempt's strategy: "none", "dedicated", "backend"
    sstate,             \* final state of its task: "none", "RESOLVED", "TIMED_OUT", "FAILED"
    sres,               \* what the call returns: "none", "true", "false", "raised"
    sattempts,          \* solving attempts started by that call
    sowner,             \* the task whose call runs the page's captcha task
    cop,                \* the session's captcha method each task is in or last
                        \* finished: "none", "manual", "wait"
    cpc,                \* where that method is: "idle", "solver"
    cres,               \* what it returned: "none", "true", "false" ("raised":
                        \* it raised)
    capCalls,           \* number of such calls issued so far
    permissions,        \* browser_profile's permitted-permissions list
    ctx_permissions,    \* for each context the session created, the
                        \* permissions list new_context() was given
    solver_page,        \* self.captcha_solver.page (None without a solver)
    call_page           \* the session's current page when each task's latest
                        \* captcha call began

sessionVars == <<initialized, browser, browser_context, browser_pid, keep_alive,
                 agent_current_page, human_current_page, wss_url, pw_browser,
                 lock, waiters>>
taskVars == <<pc, op, res, target, baseline, calls, queued, last>>
worldVars == <<bstate, bkind, cstate, cbrowser, procs>>
obsVars == <<termSignals, nStop, nClose, nTerm, how, nResolve, nConnect, nLaunch, fault,
            given>>
navTaskVars == <<npc, nop, nres, navDone, hstate, handlerCalls, solveCalls, navCalls>>
cfgVars == <<capsolver_api_key, kwargs, constructed>>
keyVars == <<cfgVars, env_key, solver_key>>
capVars == <<markers, dedicated, spc, stimeout, expired, sdet, styp, skind, sstate, sres,
            sattempts, sowner, cop, cpc, cres, capCalls>>
permVars == <<permissions, ctx_permissions>>
pageVars == <<solver_page, call_page>>
navVars == <<auto_solve_captchas, captcha_solver, navTaskVars, keyVars, capVars, permVars,
            pageVars>>
vars == <<sessionVars, taskVars, worldVars, obsVars, navVars>>

\* ------------------------------------------------------- the outside world
\* browser.is_connected()
BrowserConnected(b) == b # None /\ bstate[b] = "live"

\* context.browser
ContextBrowser(c) == IF c = None THEN None ELSE cbrowser[c]

\* `_ = context.pages` raises when the context is closed
ContextPagesRaises(c) == cstate[c] # "open"

\* browser.contexts, in creation order
OpenContextsOf(b) == {c \in Contexts : cstate[c] = "open" /\ cbrowser[c] = b}

FirstContextOf(b) == CHOOSE c \in OpenContextsOf(b) : \A d \in OpenContextsOf(b) : c <= d

\* ids of the objects the next launch / connect / new_context call creates
FreeBrowsers == {b \in Browsers : bstate[b] = "none"}
FreeContexts == {c \in Contexts : cstate[c] = "none"}
NewBrowserId == CHOOSE b \in FreeBrowsers : \A d \in FreeBrowsers : b <= d
NewContextId == CHOOSE c \in FreeContexts : \A d \in FreeContexts : c <= d

\* The pid of the process of a locally launched engine (one process each).
PidOf(b) == b

\* page.context: a page is identified by the context it belongs to.
PageContext(p) == p

\* ------------------------------------------------------------ Init
\* The session as constructed: any combination of a supplied page, context
\* and browser, a remote URL or none, either keep_alive value; browser 1 may
\* already be disconnected and context 1 closed.
TypeOK ==
    /\ initialized \in BOOLEAN
    /\ browser \in Browsers \cup {None}
    /\ browser_context \in Contexts \cup {None}
    /\ browser_pid \in Browsers \cup {None}
    /\ keep_alive \in BOOLEAN
    /\ agent_current_page \in Contexts \cup {None}
    /\ human_current_page \in Contexts \cup {None}
    /\ wss_url \in BOOLEAN
    /\ pw_browser \in Browsers \cup {None}
    /\ lock \in Tasks \cup {None}
    /\ pc \in [Tasks -> {"idle", "start_wait", "wss_driver", "wss_connect", "new_context",
                         "launch", "launch_ctx", "setup", "stop_close"}]
    /\ op \in [Tasks -> {"none", "start", "stop"}]
    /\ res \in [Tasks -> {"none", "ok", "raised"}]
    /\ calls \in 0..MaxCalls
    /\ last \in Tasks \cup {None}
    /\ how \in {"none", "passed", "wss", "launch"}
    /\ bstate \in [Browsers -> {"none", "live", "dead"}]
    /\ cstate \in [Contexts -> {"none", "open", "closed"}]
    /\ procs \subseteq Browsers
    /\ given \in Browsers \cup {None}
    /\ auto_solve_captchas \in BOOLEAN
    /\ captcha_solver \in BOOLEAN
    /\ npc \in [Tasks -> {"idle", "nav", "sleep1", "solve", "sleep2"}]
    /\ nop \in [Tasks -> {"none", "navigate", "refresh"}]
    /\ nres \in [Tasks -> {"none", "ok", "raised"}]
    /\ navDone \in [Tasks -> BOOLEAN]
    /\ hstate \in [Tasks -> {"none", "running", "finished", "failed"}]
    /\ handlerCalls \in [Tasks -> 0..MaxNavCalls]
    /\ solveCalls \in [Tasks -> 0..MaxNavCalls]
    /\ navCalls \in 0..MaxNavCalls
    /\ capsolver_api_key \in Keys \cup {NoKey}
    /\ kwargs \in CtorKwargs \cup {NoKwargs}
    /\ constructed \in {"no", "given", "session", "agent", "KeyError"}
    /\ env_key \in Keys \cup {NoKey}
    /\ solver_key \in Keys \cup {NoKey}
    /\ markers \in SUBSET Types
    /\ dedicated \in SUBSET Types
    /\ spc \in [Tasks -> {"none", "detecting", "attempt", "joined", "polling", "done"}]
    /\ stimeout \in [Tasks -> Timeouts \cup {-1}]
    /\ expired \in [Tasks -> BOOLEAN]
    /\ sdet \in [Tasks -> SUBSET Types]
    /\ styp \in [Tasks -> Types \cup {"none"}]
    /\ skind \in [Tasks -> {"none", "dedicated", "backend"}]
    /\ sstate \in [Tasks -> {"none", "RESOLVED", "TIMED_OUT", "FAILED"}]
    /\ sres \in [Tasks -> {"none", "true", "false", "raised"}]
    /\ sattempts \in [Tasks -> 0..(2 * Cardinality(Types))]
    /\ sowner \in Tasks \cup {None}
    /\ cop \in [Tasks -> {"none", "manual", "wait"}]
    /\ cpc \in [Tasks -> {"idle", "solver"}]
    /\ cres \in [Tasks -> {"none", "true", "false", "raised"}]
    /\ capCalls \in 0..MaxCapCalls
    /\ permissions \in PermLists
    /\ DOMAIN ctx_permissions \subseteq Contexts
    /\ solver_page \in Contexts \cup {None}
    /\ call_page \in [Tasks -> Contexts \cup {None}]

NoTarget == [kind |-> "none", id |-> None, pid |-> None]

\* no navigate()/refresh() call has been made
NavIdle ==
    /\ npc = [t \in Tasks |-> "idle"]
    /\ nop = [t \in Tasks |-> "none"]
    /\ nres = [t \in Tasks |-> "none"]
    /\ navDone = [t \in Tasks |-> FALSE]
    /\ hstate = [t \in Tasks |-> "none"]
    /\ handlerCalls = [t \in Tasks |-> 0]
    /\ solveCalls = [t \in Tasks |-> 0]
    /\ navCalls = 0

\* no captcha method has been called
CapCallsIdle ==
    /\ spc = [t \in Tasks |-> "none"]
    /\ stimeout = [t \in Tasks |-> -1]
    /\ expired = [t \in Tasks |-> FALSE]
    /\ sdet = [t \in Tasks |-> {}]
    /\ styp = [t \in Tasks |-> "none"]
    /\ skind = [t \in Tasks |-> "none"]
    /\ sstate = [t \in Tasks |-> "none"]
    /\ sres = [t \in Tasks |-> "none"]
    /\ sattempts = [t \in Tasks |-> 0]
    /\ sowner = None
    /\ cop = [t \in Tasks |-> "none"]
    /\ cpc = [t \in Tasks |-> "idle"]
    /\ cres = [t \in Tasks |-> "none"]
    /\ capCalls = 0

\* no captcha method has been called, the page presents no captcha
CapIdle ==
    /\ markers = {}
    /\ dedicated = DedicatedTypes
    /\ CapCallsIdle

\* the session's solver, if any, is on page sp; no task has called a captcha
\* method or run the captcha handler
NoCaptchaCall(sp) ==
    /\ solver_page = sp
    /\ call_page = [t \in Tasks |-> None]

\* the profile lists its usual permissions, no context was created yet
PermIdle ==
    /\ permissions = ProfilePermissions
    /\ ctx_permissions = <<>>

\* the session was constructed earlier
Constructed ==
    /\ kwargs = NoKwargs
    /\ constructed = "given"

\* no API key configured or in the environment
NoKeys ==
    /\ capsolver_api_key = NoKey
    /\ env_key = NoKey
    /\ solver_key = NoKey

Init ==
    /\ initialized = FALSE
    /\ browser \in ExtBrowsers \cup {None}
    /\ browser_context \in {1, 3, None}
    /\ agent_current_page \in {1, None}
    /\ human_current_page = None
    /\ browser_pid = None
    /\ keep_alive \in BOOLEAN
    /\ wss_url \in BOOLEAN
    /\ pw_browser = None
    /\ lock = None
    /\ waiters = <<>>
    /\ pc = [t \in Tasks |-> "idle"]
    /\ op = [t \in Tasks |-> "none"]
    /\ res = [t \in Tasks |-> "none"]
    /\ target = [t \in Tasks |-> NoTarget]
    /\ baseline = {}
    /\ calls = 0
    /\ queued = [t \in Tasks |-> FALSE]
    /\ last = None
    /\ \E d \in {{}, {1}} :
          bstate = [b \in Browsers |-> IF b \in d THEN "dead"
                                       ELSE IF b \in ExtBrowsers THEN "live" ELSE "none"]
    /\ bkind = [b \in Browsers |-> "ext"]
    /\ \E k \in {{}, {1}} :
          cstate = [c \in Contexts |-> IF c \in k THEN "closed"
                                       ELSE IF c \in ExtContexts THEN "open" ELSE "none"]
    /\ cbrowser = [c \in Contexts |-> IF c \in {1, 2} THEN c ELSE None]
    /\ procs = {}
    /\ termSignals = [p \in Browsers |-> 0]
    /\ nStop = 0
    /\ nClose = 0
    /\ nTerm = 0
    /\ how = "none"
    /\ nResolve = 0
    /\ nConnect = 0
    /\ nLaunch = 0
    /\ fault = FALSE
    /\ given = browser
    /\ auto_solve_captchas = TRUE
    /\ captcha_solver = FALSE
    /\ NoCaptchaCall(None)
    /\ NavIdle
    /\ Constructed
    /\ NoKeys
    /\ CapIdle
    /\ PermIdle

\* ------------------------------------------- helpers inherited by the session
\* self.is_connected(): the connection is still valid.
is_connected ==
    /\ browser_context # None
    /\ ~(browser # None /\ ~BrowserConnected(browser))
    /\ ~(ContextBrowser(browser_context) # None
         /\ ~BrowserConnected(ContextBrowser(browser_context)))
    /\ ~ContextPagesRaises(browser_context)

\* self._set_browser_keep_alive(v): "dont kill it at the end" (True) or "close
\* the browser at the end because we launched it" (False).
set_browser_keep_alive(v) == v

\* self._reset_connection_state(), called by start() before it resolves a
\* connection: the session is rolled back to uninitialized; the handles the
\* session holds are the inputs of the resolution that follows and are kept.
reset_connection_state ==
    [initialized |-> FALSE, browser |-> browser,
     browser_context |-> browser_context, browser_pid |-> browser_pid]

\* ------------------------------------- setup_browser_via_passed_objects
\* 1. a passed Page takes priority: browser_context = page.context
PassedContext1(p, c) ==
    IF p # None /\ PageContext(p) # None THEN PageContext(p) ELSE c

\* 2. drop the context when it is closed or its browser is disconnected
PassedContext2(p, c) ==
    LET x == PassedContext1(p, c)
    IN IF x = None THEN None
       ELSE IF ContextPagesRaises(x) THEN None
       ELSE IF cbrowser[x] # None /\ ~BrowserConnected(cbrowser[x]) THEN None
       ELSE x

\* 3. a disconnected browser object is cleared, with the context that is its own
PassedContext3(p, c, b) ==
    LET x == PassedContext2(p, c)
    IN IF b # None /\ ~BrowserConnected(b) /\ x # None /\ cbrowser[x] = b
       THEN None ELSE x

PassedBrowser3(b) == IF b # None /\ ~BrowserConnected(b) THEN None ELSE b

\* mutant: the passed browser is kept whatever the context's browser is
PassedBrowser4_KeepsPassed(p, c, b) == PassedBrowser3(b)

\* 4. the context's browser takes precedence over the passed browser
PassedBrowser4(p, c, b) ==
    LET bfc == ContextBrowser(PassedContext3(p, c, b))
    IN IF bfc # None /\ BrowserConnected(bfc) THEN bfc ELSE PassedBrowser3(b)

\* "Connected to existing user-provided browser_context": keep it alive
PassedConnected(p, c, b) == PassedBrowser4(p, c, b) # None \/ PassedContext3(p, c, b) # None

\* mutant: reusing a passed browser does not mark it keep-alive
PassedKeepAlive_Unset(p, c, b) == keep_alive

PassedKeepAlive(p, c, b) ==
    IF PassedConnected(p, c, b) THEN set_browser_keep_alive(TRUE) ELSE keep_alive

\* ------------------------------------------------------- coroutine steps
Returned(t, r) ==
    /\ pc' = [pc EXCEPT ![t] = "idle"]
    /\ res' = [res EXCEPT ![t] = r]

\* the coroutine of task t is suspended at `where`, holding the start lock
Suspend(t, where, init, b, c, pid, ka) ==
    /\ pc' = [pc EXCEPT ![t] = where]
    /\ res' = [res EXCEPT ![t] = "none"]
    /\ initialized' = init
    /\ lock' = t
    /\ browser' = b
    /\ browser_context' = c
    /\ browser_pid' = pid
    /\ keep_alive' = ka
    /\ UNCHANGED fault

\* mutant: a failed start() leaves the session marked initialized
StartRaises_KeepsInitialized(t, b, c, pid, ka) ==
    /\ initialized' = TRUE
    /\ lock' = None
    /\ Returned(t, "raised")
    /\ fault' = TRUE
    /\ browser' = b
    /\ browser_context' = c
    /\ browser_pid' = pid
    /\ keep_alive' = ka

\* `except Exception: self.initialized = False; raise`, leaving `async with`
StartRaises(t, b, c, pid, ka) ==
    /\ initialized' = FALSE
    /\ lock' = None
    /\ Returned(t, "raised")
    /\ fault' = TRUE
    /\ browser' = b
    /\ browser_context' = c
    /\ browser_pid' = pid
    /\ keep_alive' = ka

\* Detection of the spawned process and the closing assertions of
\* setup_new_browser_context, given the browser and context it ended with and
\* the child processes and browser states at that time; then the coroutine is
\* suspended in add_init_script.
\* new_camoufox_procs is empty when psutil raises or the new process is not
\* in status 'running' when sampled; otherwise any of the new pids comes first.
ResolveTail(t, init, b, c, pid, ka, base, np, bs) ==
    \E d \in ((np \ base) \cup {None}) :
        LET record == d # None /\ pid = None
            pid2 == IF record THEN d ELSE pid
            ka2 == IF record THEN set_browser_keep_alive(FALSE) ELSE ka
        IN IF (b # None /\ bs[b] # "live") \/ c = None
           THEN StartRaises(t, b, c, pid2, ka2)
           ELSE Suspend(t, "setup", init, b, c, pid2, ka2)

\* setup_new_browser_context from its entry to its first suspension
EnterNewContext(t, init, b, c, pid, ka, np, bs) ==
    /\ baseline' = np
    /\ IF b # None /\ c = None
       THEN IF OpenContextsOf(b) # {}
            THEN ResolveTail(t, init, b, FirstContextOf(b), pid, ka, np, np, bs)
            ELSE Suspend(t, "new_context", init, b, c, pid, ka)
       ELSE IF b = None
            THEN Suspend(t, "launch", init, b, c, pid, ka)
            ELSE ResolveTail(t, init, b, c, pid, ka, np, np, bs)

\* mutant: the remote attach does not ask whether a wss_url is provided
WssAttempted_NoUrlCheck(b, c) == b = None /\ c = None

\* mutant: the remote endpoint is tried even though a handle was reused
WssAttempted_Always(b, c) == wss_url

\* setup_browser_via_wss_url goes on to connect: not "already connected to a
\* browser" and a wss_url is provided
WssAttempted(b, c) == b = None /\ c = None /\ wss_url

\* mutant: start() never takes the early return
AlreadyStarted_Never == FALSE

\* `if self.initialized and self.is_connected(): return self`
AlreadyStarted == initialized /\ is_connected

\* start() from the moment it holds the lock to its first suspension
StartBody(t) ==
    IF AlreadyStarted
    THEN /\ Returned(t, "ok")
         /\ lock' = None
         /\ UNCHANGED <<initialized, browser, browser_context, browser_pid, keep_alive,
                        pw_browser, baseline, nResolve, fault, how>>
    ELSE LET r == reset_connection_state
             p == agent_current_page
             c == PassedContext3(p, r.browser_context, r.browser)
             b == PassedBrowser4(p, r.browser_context, r.browser)
             ka == PassedKeepAlive(p, r.browser_context, r.browser)
         IN /\ nResolve' = nResolve + 1
            /\ \/ \* browser_profile.prepare_user_data_dir() raises
                  /\ StartRaises(t, r.browser, r.browser_context, r.browser_pid, keep_alive)
                  /\ UNCHANGED <<pw_browser, baseline, how>>
               \/ /\ pw_browser' = None
                  /\ how' = IF PassedConnected(p, r.browser_context, r.browser)
                            THEN "passed" ELSE "none"
                  /\ IF WssAttempted(b, c)
                     THEN /\ Suspend(t, "wss_driver", TRUE, b, c, r.browser_pid, ka)
                          /\ UNCHANGED baseline
                     ELSE EnterNewContext(t, TRUE, b, c, r.browser_pid, ka, procs, bstate)

\* mutant: start() does not take the lock
LockFree_NoLock == TRUE

\* self._start_lock.acquire() returns at once: the lock is free and nobody
\* waits for it
LockFree == lock = None /\ waiters = <<>>

\* start() is called and finds the lock free, or queues for it
StartCall(t) ==
    /\ pc[t] = "idle"
    /\ calls < MaxCalls
    /\ calls' = calls + 1
    /\ op' = [op EXCEPT ![t] = "start"]
    /\ last' = t
    /\ queued' = [queued EXCEPT ![t] = ~LockFree]
    /\ IF LockFree
       THEN /\ StartBody(t)
            /\ UNCHANGED waiters
       ELSE /\ pc' = [pc EXCEPT ![t] = "start_wait"]
            /\ res' = [res EXCEPT ![t] = "none"]
            /\ waiters' = Append(waiters, t)
            /\ UNCHANGED <<initialized, browser, browser_context, browser_pid, keep_alive,
                           pw_browser, lock, baseline, nResolve, fault, how>>
    /\ UNCHANGED <<agent_current_page, human_current_page, wss_url, target,
                   worldVars, navVars, given, termSignals, nStop, nClose, nTerm, nConnect, nLaunch>>

\* the first waiter is woken once the lock has been released
StartAcquired(t) ==
    /\ pc[t] = "start_wait"
    /\ lock = None
    /\ waiters # <<>> /\ Head(waiters) = t
    /\ waiters' = Tail(waiters)
    /\ StartBody(t)
    /\ last' = t
    /\ UNCHANGED <<agent_current_page, human_current_page, wss_url, op, target, calls,
                   queued, worldVars, navVars, given, termSignals, nStop, nClose, nTerm, nConnect, nLaunch>>

\* a start() step that raises after a suspension
StartStepRaises(t) ==
    /\ StartRaises(t, browser, browser_context, browser_pid, keep_alive)
    /\ UNCHANGED <<agent_current_page, human_current_page, wss_url, pw_browser, waiters,
                   op, target, baseline, calls, queued, worldVars,
                   navVars, given, termSignals, nStop, nClose, nTerm, how, nResolve, nConnect, nLaunch>>

\* _get_playwright_async: `await self.playwright.start()` has launched the
\* driver's own engine (self.playwright.browser), or raised
StartWssDriver(t) ==
    /\ pc[t] = "wss_driver"
    /\ last' = t
    /\ \/ StartStepRaises(t)
       \/ /\ FreeBrowsers # {}
          /\ LET e == NewBrowserId
             IN /\ bstate' = [bstate EXCEPT ![e] = "live"]
                /\ bkind' = [bkind EXCEPT ![e] = "driver"]
                /\ procs' = procs \cup {PidOf(e)}
                /\ pw_browser' = e
          /\ pc' = [pc EXCEPT ![t] = "wss_connect"]
          /\ UNCHANGED <<initialized, browser, browser_context, browser_pid, keep_alive,
                         agent_current_page, human_current_page, wss_url, lock, waiters,
                         op, res, target, baseline, calls, queued, cstate, cbrowser,
                         obsVars, navVars>>

\* setup_browser_via_wss_url: firefox.connect(wss_url) has returned the remote
\* browser, or raised; on success setup_new_browser_context is entered
StartWssConnected(t) ==
    /\ pc[t] = "wss_connect"
    /\ last' = t
    /\ \/ StartStepRaises(t)
       \/ /\ FreeBrowsers # {}
          /\ LET r == NewBrowserId
                 bs == [bstate EXCEPT ![r] = "live"]
             IN /\ bstate' = bs
                /\ bkind' = [bkind EXCEPT ![r] = "remote"]
                /\ EnterNewContext(t, initialized, r, browser_context, browser_pid,
                                   set_browser_keep_alive(TRUE), procs, bs)
          /\ nConnect' = nConnect + 1
          /\ how' = "wss"
          /\ UNCHANGED <<agent_current_page, human_current_page, wss_url, pw_browser,
                         waiters, op, target, calls, queued, cstate, cbrowser, procs,
                         navVars, given, termSignals, nStop, nClose, nTerm, nResolve, nLaunch>>

\* browser.new_context(...) has returned a new context of self.browser, or
\* raised (it raises when the browser has been closed meanwhile)
ContextCreated(t, perms) ==
    \/ StartStepRaises(t)
    \/ /\ FreeContexts # {}
       /\ BrowserConnected(browser)
       /\ LET c == NewContextId
          IN /\ cstate' = [cstate EXCEPT ![c] = "open"]
             /\ cbrowser' = [cbrowser EXCEPT ![c] = browser]
             /\ ctx_permissions' = (c :> perms) @@ ctx_permissions
             /\ ResolveTail(t, initialized, browser, c, browser_pid, keep_alive,
                            baseline, procs, bstate)
       /\ UNCHANGED <<agent_current_page, human_current_page, wss_url, pw_browser, waiters,
                      op, target, baseline, calls, queued, bstate, bkind, procs,
                      auto_solve_captchas, captcha_solver, navTaskVars, keyVars, capVars,
                      permissions, pageVars,
                      given, termSignals, nStop, nClose, nTerm, how, nResolve, nConnect, nLaunch>>

\* `perm for perm in context_kwargs['permissions'] if perm in
\* firefox_supported_permissions`
firefox_supported_permissions == {"notifications", "geolocation", "camera", "microphone"}
SupportedOnly(perms) == SelectSeq(perms, LAMBDA q : q \in firefox_supported_permissions)

\* `**self.browser_profile.kwargs_for_new_context().model_dump()`: the
\* profile's list as it is
ExistingBrowserPermissions(perms) == perms

\* setup_new_browser_context: new context in an existing browser
StartNewContext(t) ==
    /\ pc[t] = "new_context"
    /\ last' = t
    /\ ContextCreated(t, ExistingBrowserPermissions(permissions))

\* setup_new_browser_context: `await self.playwright.start()` has launched the
\* local engine, or raised; self.browser = self.playwright.browser
StartLaunched(t) ==
    /\ pc[t] = "launch"
    /\ last' = t
    /\ \/ StartStepRaises(t)
       \/ /\ FreeBrowsers # {}
          /\ LET e == NewBrowserId
                 bs == [bstate EXCEPT ![e] = "live"]
                 np == procs \cup {PidOf(e)}
             IN /\ bstate' = bs
                /\ bkind' = [bkind EXCEPT ![e] = "engine"]
                /\ procs' = np
                /\ pw_browser' = e
                /\ IF browser_context = None
                   THEN Suspend(t, "launch_ctx", initialized, e, None, browser_pid, keep_alive)
                   ELSE ResolveTail(t, initialized, e, browser_context, browser_pid,
                                    keep_alive, baseline, np, bs)
          /\ nLaunch' = nLaunch + 1
          /\ how' = "launch"
          /\ UNCHANGED <<agent_current_page, human_current_page, wss_url, waiters,
                         op, target, baseline, calls, queued, cstate, cbrowser,
                         navVars, given, termSignals, nStop, nClose, nTerm, nResolve, nConnect>>

\* setup_new_browser_context: new context in the engine just launched
StartLaunchContext(t) ==
    /\ pc[t] = "launch_ctx"
    /\ last' = t
    /\ ContextCreated(t, SupportedOnly(permissions))

\* mutant: the environment's key is preferred to the configured one
resolved_api_key_EnvFirst ==
    IF Truthy(env_key) THEN env_key ELSE capsolver_api_key

\* `api_key = self.capsolver_api_key or os.getenv('CAPSOLVER_API_KEY')`
resolved_api_key ==
    IF Truthy(capsolver_api_key) THEN capsolver_api_key ELSE env_key

\* _setup_captcha_solver for current page p, the solver being set (s) or not:
\* a CaptchaSolver is created when there is a page and it is not closed; any
\* error is logged and leaves the solver as it was
setup_captcha_solver(p, s) ==
    IF p # None /\ cstate[PageContext(p)] = "open" THEN TRUE ELSE s

\* mutant: an error of CaptchaSolver(...) escapes _setup_captcha_solver
SolverSetupErrorTolerated_Not == FALSE

\* `except Exception as e: logger.error(f"Failed to initialize captcha solver:
\* {e}")` around the whole of _setup_captcha_solver
SolverSetupErrorTolerated == TRUE

\* add_init_script, load_cookies_from_file, _setup_viewports and
\* _setup_current_page_change_listeners have run on self.browser_context, or
\* one of them raised (they raise on a missing or closed context); on success
\* the session exposes the page of its context, the solver is set up if
\* auto-solving is enabled (CaptchaSolver(...) may raise) and start() returns
StartSetupDone(t) ==
    /\ pc[t] = "setup"
    /\ last' = t
    /\ \/ StartStepRaises(t)
       \/ /\ browser_context # None
          /\ cstate[browser_context] = "open"
          /\ agent_current_page' = browser_context
          /\ human_current_page' = browser_context
          /\ lock' = None
          /\ \/ /\ captcha_solver' = IF auto_solve_captchas
                                     THEN setup_captcha_solver(browser_context, captcha_solver)
                                     ELSE captcha_solver
                /\ solver_key' = IF auto_solve_captchas THEN resolved_api_key
                                 ELSE solver_key
                /\ solver_page' = IF auto_solve_captchas THEN browser_context
                                  ELSE solver_page
                /\ Returned(t, "ok")
                /\ UNCHANGED <<initialized, fault>>
             \/ \* CaptchaSolver(...) raised
                /\ auto_solve_captchas
                /\ UNCHANGED <<captcha_solver, solver_key, solver_page>>
                /\ IF SolverSetupErrorTolerated
                   THEN Returned(t, "ok") /\ UNCHANGED <<initialized, fault>>
                   ELSE /\ Returned(t, "raised")
                        /\ initialized' = FALSE
                        /\ fault' = TRUE
          /\ UNCHANGED <<browser, browser_context, browser_pid, keep_alive,
                         wss_url, pw_browser, waiters, op, target, baseline, calls,
                         queued, worldVars, termSignals, nStop, nClose, nTerm, how,
                         nResolve, nConnect, nLaunch, given, auto_solve_captchas,
                         navTaskVars, cfgVars, env_key, capVars, permVars, call_page>>

\* --------------------------------------------------------------- stop()
\* mutant: stop() ignores keep_alive
KeepAliveReturn_Never == FALSE

\* `if self.browser_profile.keep_alive: return`
KeepAliveReturn == keep_alive

\* mutant: an error of close() escapes stop()
CloseErrorTolerated_Not == FALSE

\* `except Exception as e: logger.debug(...)` around close(): the error is
\* logged and stop() goes on
CloseErrorTolerated == TRUE

\* `except Exception as e: ...` around terminate(): NoSuchProcess is ignored,
\* any other error is logged, and stop() goes on
TerminateErrorTolerated == TRUE

\* "kill the chrome subprocess if we were the ones that started it", given the
\* child processes and browser states left by close(): terminate() delivers
\* the signal and the pid is forgotten, or it raises (NoSuchProcess when the
\* process is gone, another error otherwise) and the pid stays recorded.
KillSubprocess(t, np, bs) ==
    IF browser_pid = None
    THEN /\ procs' = np
         /\ bstate' = bs
         /\ Returned(t, "ok")
         /\ UNCHANGED <<browser_pid, termSignals, nTerm>>
    ELSE /\ nTerm' = nTerm + 1
         /\ \/ /\ browser_pid \in np
               /\ termSignals' = [termSignals EXCEPT ![browser_pid] = @ + 1]
               /\ procs' = np \ {browser_pid}
               /\ bstate' = [bs EXCEPT ![browser_pid] = "dead"]
               /\ browser_pid' = None
               /\ Returned(t, "ok")
            \/ /\ procs' = np
               /\ bstate' = bs
               /\ Returned(t, IF TerminateErrorTolerated THEN "ok" ELSE "raised")
               /\ UNCHANGED <<browser_pid, termSignals>>

\* stop() from its call to its return or to `await (...).close()`
StopCall(t) ==
    /\ pc[t] = "idle"
    /\ calls < MaxCalls
    /\ calls' = calls + 1
    /\ nStop' = nStop + 1
    /\ last' = t
    /\ op' = [op EXCEPT ![t] = "stop"]
    /\ queued' = [queued EXCEPT ![t] = FALSE]
    /\ initialized' = FALSE
    /\ IF KeepAliveReturn
       THEN /\ Returned(t, "ok")
            /\ UNCHANGED <<target, nClose, nTerm, browser_pid, termSignals, procs, bstate>>
       ELSE IF browser_context # None \/ browser # None
       THEN /\ target' = [target EXCEPT ![t] =
                            IF browser_context # None
                            THEN [kind |-> "context", id |-> browser_context,
                                  pid |-> browser_pid]
                            ELSE [kind |-> "browser", id |-> browser,
                                  pid |-> browser_pid]]
            /\ pc' = [pc EXCEPT ![t] = "stop_close"]
            /\ res' = [res EXCEPT ![t] = "none"]
            /\ nClose' = nClose + 1
            /\ UNCHANGED <<nTerm, browser_pid, termSignals, procs, bstate>>
       ELSE /\ KillSubprocess(t, procs, bstate)
            /\ UNCHANGED <<target, nClose>>
    /\ UNCHANGED <<browser, browser_context, keep_alive, agent_current_page,
                   human_current_page, wss_url, pw_browser, lock, waiters, baseline,
                   bkind, cstate, cbrowser, how, nResolve, nConnect, nLaunch, fault, given, navVars>>

\* mutant: stop() joins the captcha calls of the other tasks before it goes on
StopHeldByCaptcha_Joins(t) ==
    \E u \in Tasks \ {t} : npc[u] # "idle" \/ cpc[u] # "idle"

\* stop() awaits nothing but close(): it takes no lock and joins no captcha
\* task, so nothing a captcha method does holds it back
StopHeldByCaptcha(t) == FALSE

\* close() of the awaited object has returned, or raised; then the recorded
\* subprocess is signalled and stop() returns
StopClosed(t) ==
    /\ pc[t] = "stop_close"
    /\ ~StopHeldByCaptcha(t)
    /\ last' = t
    /\ LET x == target[t].id
       IN \/ \* close() raised: nothing is cleared
             /\ UNCHANGED <<browser_context, cstate>>
             /\ IF CloseErrorTolerated
                THEN KillSubprocess(t, procs, bstate)
                ELSE /\ Returned(t, "raised")
                     /\ UNCHANGED <<browser_pid, termSignals, nTerm, procs, bstate>>
          \/ \* the context is closed; self.browser_context = None
             /\ target[t].kind = "context"
             /\ cstate[x] = "open"
             /\ cstate' = [cstate EXCEPT ![x] = "closed"]
             /\ browser_context' = None
             /\ KillSubprocess(t, procs, bstate)
          \/ \* the browser is closed with its contexts; a local engine exits
             /\ target[t].kind = "browser"
             /\ cstate' = [c \in Contexts |->
                             IF cbrowser[c] = x /\ cstate[c] = "open"
                             THEN "closed" ELSE cstate[c]]
             /\ browser_context' = None
             /\ KillSubprocess(t, IF bkind[x] \in {"engine", "driver"}
                                  THEN procs \ {PidOf(x)} ELSE procs,
                                  [bstate EXCEPT ![x] = "dead"])
    /\ target' = [target EXCEPT ![t] = NoTarget]
    /\ UNCHANGED <<initialized, browser, keep_alive, agent_current_page,
                   human_current_page, wss_url, pw_browser, lock, waiters, op, baseline,
                   calls, queued, bkind, cbrowser, nStop, nClose, how, nResolve, nConnect,
                   nLaunch, fault, given, navVars>>

\* ------------------------------------------------------------ behaviours
Next ==
    \E t \in Tasks :
        \/ StartCall(t)
        \/ StartAcquired(t)
        \/ StartWssDriver(t)
        \/ StartWssConnected(t)
        \/ StartNewContext(t)
        \/ StartLaunched(t)
        \/ StartLaunchContext(t)
        \/ StartSetupDone(t)
        \/ StopCall(t)
        \/ StopClosed(t)

Spec == Init /\ [][Next]_vars

\* ------------------------------------------- several sessions in one process
\* Another StealthBrowserSession of the same OS process completes the local
\* launch of its setup_new_browser_context: its engine is one more child of
\* the current process, and no object of this session refers to it.
OtherSessionLaunches ==
    /\ FreeBrowsers # {}
    /\ \A b \in Browsers : bkind[b] # "foreign"
    /\ LET e == NewBrowserId
       IN /\ bstate' = [bstate EXCEPT ![e] = "live"]
          /\ bkind' = [bkind EXCEPT ![e] = "foreign"]
          /\ procs' = procs \cup {PidOf(e)}
    /\ UNCHANGED <<sessionVars, taskVars, cstate, cbrowser, obsVars, navVars>>

NextShared == Next \/ OtherSessionLaunches

SpecShared == Init /\ [][NextShared]_vars

\* ------------------------------------------------- navigate() and refresh()
\* A session that start() has returned on the caller's browser 1 and context
\* 1, or one that exposes no page yet.
ReadySessionWith(ka) ==
    /\ initialized = TRUE
    /\ browser = 1
    /\ browser_context = 1
    /\ agent_current_page \in {1, None}
    /\ human_current_page = agent_current_page
    /\ browser_pid = None
    /\ keep_alive = ka
    /\ wss_url = FALSE
    /\ pw_browser = None
    /\ lock = None
    /\ waiters = <<>>
    /\ pc = [t \in Tasks |-> "idle"]
    /\ op = [t \in Tasks |-> IF t = 1 THEN "start" ELSE "none"]
    /\ res = [t \in Tasks |-> IF t = 1 THEN "ok" ELSE "none"]
    /\ target = [t \in Tasks |-> NoTarget]
    /\ baseline = {}
    /\ calls = 1
    /\ queued = [t \in Tasks |-> FALSE]
    /\ last = 1
    /\ bstate = [b \in Browsers |-> IF b \in ExtBrowsers THEN "live" ELSE "none"]
    /\ bkind = [b \in Browsers |-> "ext"]
    /\ cstate = [c \in Contexts |-> IF c \in ExtContexts THEN "open" ELSE "none"]
    /\ cbrowser = [c \in Contexts |-> IF c \in {1, 2} THEN c ELSE None]
    /\ procs = {}
    /\ termSignals = [p \in Browsers |-> 0]
    /\ nStop = 0
    /\ nClose = 0
    /\ nTerm = 0
    /\ how = "passed"
    /\ nResolve = 1
    /\ nConnect = 0
    /\ nLaunch = 0
    /\ fault = FALSE
    /\ given = 1

\* ... and keep_alive was set by the resolution from the passed handles
ReadySession == ReadySessionWith(TRUE)

\* Such a session with auto-solving enabled or not, a captcha solver created
\* or not.
InitNav ==
    /\ ReadySession
    /\ auto_solve_captchas \in BOOLEAN
    /\ captcha_solver \in BOOLEAN
    /\ NoCaptchaCall(IF captcha_solver THEN 1 ELSE None)
    /\ NavIdle
    /\ Constructed
    /\ NoKeys
    /\ CapIdle
    /\ PermIdle

\* super().navigate(url) / super().refresh(): the pages the session can have
\* as its current page afterwards.  A current page stays; without one, a page
\* of the session's context may have been opened.
navigate_pages(p) ==
    IF p # None THEN {p}
    ELSE {None} \cup (IF browser_context # None THEN {browser_context} ELSE {})

\* mutant: the captcha handler is run whether auto-solving is enabled or not
AutoSolve_Always(p) == TRUE

\* `if self.auto_solve_captchas and self.agent_current_page:`
AutoSolve(p) == auto_solve_captchas /\ p # None

\* the navigation call of task t returns
NavReturned(t, r, h) ==
    /\ npc' = [npc EXCEPT ![t] = "idle"]
    /\ nres' = [nres EXCEPT ![t] = r]
    /\ hstate' = [hstate EXCEPT ![t] = h]

\* mutant: an error inside captcha handling leaves the navigation call
HandlerErrorTolerated_Not == FALSE

\* `except Exception as e: logger.error(...)` of _handle_page_captchas and of
\* _setup_captcha_solver: the error is logged and the handler returns
HandlerErrorTolerated == TRUE

\* an error was raised inside captcha handling
HandlerFailed(t) ==
    IF HandlerErrorTolerated
    THEN NavReturned(t, "ok", "failed")
    ELSE NavReturned(t, "raised", "failed")

\* _handle_page_captchas from its call to `await asyncio.sleep(1)`, or to its
\* return when there is no solver or no page; creating the solver may fail
HandlerEnter(t, p) ==
    LET s == IF ~captcha_solver \/ p = None
             THEN setup_captcha_solver(p, captcha_solver) ELSE captcha_solver
    IN /\ handlerCalls' = [handlerCalls EXCEPT ![t] = @ + 1]
       /\ call_page' = [call_page EXCEPT ![t] = p]
       /\ \/ /\ captcha_solver' = s
             /\ solver_key' = IF s # captcha_solver THEN resolved_api_key ELSE solver_key
             /\ solver_page' = IF s /\ p # None THEN p ELSE solver_page
             /\ IF s /\ p # None
                THEN /\ npc' = [npc EXCEPT ![t] = "sleep1"]
                     /\ hstate' = [hstate EXCEPT ![t] = "running"]
                     /\ UNCHANGED nres
                ELSE NavReturned(t, "ok", "finished")
          \/ \* CaptchaSolver(...) raised
             /\ s # captcha_solver
             /\ UNCHANGED <<captcha_solver, solver_key, solver_page>>
             /\ HandlerFailed(t)

\* navigate(url) or refresh() is called: `await super().navigate(url)`
NavCall(t, k) ==
    /\ npc[t] = "idle"
    /\ cpc[t] = "idle"
    /\ navCalls < MaxNavCalls
    /\ navCalls' = navCalls + 1
    /\ nop' = [nop EXCEPT ![t] = k]
    /\ npc' = [npc EXCEPT ![t] = "nav"]
    /\ nres' = [nres EXCEPT ![t] = "none"]
    /\ navDone' = [navDone EXCEPT ![t] = FALSE]
    /\ hstate' = [hstate EXCEPT ![t] = "none"]
    /\ handlerCalls' = [handlerCalls EXCEPT ![t] = 0]
    /\ solveCalls' = [solveCalls EXCEPT ![t] = 0]
    /\ UNCHANGED <<sessionVars, taskVars, worldVars, obsVars, auto_solve_captchas,
                   captcha_solver, keyVars, capVars, permVars, pageVars>>

\* the underlying navigation has raised, and the error leaves the call; or it
\* has completed, and the captcha handler is run if auto-solving is enabled
NavLoaded(t) ==
    /\ npc[t] = "nav"
    /\ \/ /\ NavReturned(t, "raised", "none")
          /\ UNCHANGED <<agent_current_page, captcha_solver, solver_key, navDone,
                         handlerCalls, pageVars>>
       \/ \E p \in navigate_pages(agent_current_page) :
             /\ agent_current_page' = p
             /\ navDone' = [navDone EXCEPT ![t] = TRUE]
             /\ IF AutoSolve(p)
                THEN HandlerEnter(t, p)
                ELSE /\ NavReturned(t, "ok", "none")
                     /\ UNCHANGED <<captcha_solver, solver_key, handlerCalls, pageVars>>
    /\ UNCHANGED <<initialized, browser, browser_context, browser_pid, keep_alive,
                   human_current_page, wss_url, pw_browser, lock, waiters,
                   taskVars, worldVars, obsVars, auto_solve_captchas,
                   nop, solveCalls, navCalls, cfgVars, env_key, capVars, permVars>>

\* asyncio.sleep(1) is over: `await self.captcha_solver.detect_and_solve_captchas(timeout=30)`
HandlerSleeps(t) ==
    /\ npc[t] = "sleep1"
    /\ npc' = [npc EXCEPT ![t] = "solve"]
    /\ solveCalls' = [solveCalls EXCEPT ![t] = @ + 1]
    /\ UNCHANGED <<sessionVars, taskVars, worldVars, obsVars, auto_solve_captchas,
                   captcha_solver, nop, nres, navDone, hstate, handlerCalls, navCalls,
                   keyVars, permVars, pageVars>>

\* the same, the solver's work left out
HandlerSlept(t) == HandlerSleeps(t) /\ UNCHANGED capVars

\* the handler goes on after detect_and_solve_captchas returned True ("solved":
\* sleep 2 s more), returned False ("unsolved"), or raised ("raised")
HandlerOutcome(t, out) ==
    CASE out = "solved" -> npc' = [npc EXCEPT ![t] = "sleep2"] /\ UNCHANGED <<nres, hstate>>
      [] out = "unsolved" -> NavReturned(t, "ok", "finished")
      [] out = "raised" -> HandlerFailed(t)

\* detect_and_solve_captchas is over, with any of its outcomes
HandlerSolved(t) ==
    /\ npc[t] = "solve"
    /\ \E out \in {"solved", "unsolved", "raised"} : HandlerOutcome(t, out)
    /\ UNCHANGED <<sessionVars, taskVars, worldVars, obsVars, auto_solve_captchas,
                   captcha_solver, nop, navDone, handlerCalls, solveCalls, navCalls,
                   keyVars, capVars, permVars, pageVars>>

\* asyncio.sleep(2) is over: the handler and the navigation call return
HandlerSettled(t) ==
    /\ npc[t] = "sleep2"
    /\ NavReturned(t, "ok", "finished")
    /\ UNCHANGED <<sessionVars, taskVars, worldVars, obsVars, auto_solve_captchas,
                   captcha_solver, nop, navDone, handlerCalls, solveCalls, navCalls,
                   keyVars, capVars, permVars, pageVars>>

NextNav ==
    \E t \in Tasks :
        \/ NavCall(t, "navigate")
        \/ NavCall(t, "refresh")
        \/ NavLoaded(t)
        \/ HandlerSlept(t)
        \/ HandlerSolved(t)
        \/ HandlerSettled(t)

SpecNav == InitNav /\ [][NextNav]_vars

\* ------------------------------------------------------ the captcha solver
\* CaptchaSolver of browser_use.captcha: detect_and_solve_captchas(timeout)
\* runs one task per page through DETECTING and SOLVING to RESOLVED,
\* TIMED_OUT or FAILED; wait_for_captcha_resolution(timeout) polls detection.

\* mutant: a call starts a task of its own whatever is in flight
TaskInFlight_Ignored == FALSE

\* a task for the page is in flight: a new call waits for it
TaskInFlight == sowner # None

\* mutant: the deadline is looked at only between attempts
DeadlineEnforced_Not == FALSE

\* the timeout is a deadline: at the deadline an attempt in flight is abandoned
DeadlineEnforced == TRUE

\* mutant: the solving phase is entered whatever detection produced
NothingDetected_Never(D) == FALSE

\* detection produced the empty set
NothingDetected(D) == D = {}

\* mutant: the detected types are taken in the reverse order
FirstType_Last(R) == CHOOSE y \in R : \A z \in R : Priority(y) >= Priority(z)

\* the type of R that comes first in the solving order
FirstType(R) == CHOOSE y \in R : \A z \in R : Priority(y) <= Priority(z)

\* the strategy tried first for a type: its dedicated one when there is one
FirstStrategy(y) == IF y \in dedicated THEN "dedicated" ELSE "backend"

\* the call of task t ends in state st and returns r; the calls that wait for
\* its task, their own deadline not passed, return the same
Finish(t, st, r) ==
    LET ends(j) == j = t \/ (sowner = t /\ spc[j] = "joined" /\ ~expired[j])
    IN /\ spc' = [j \in Tasks |-> IF ends(j) THEN "done" ELSE spc[j]]
       /\ sstate' = [j \in Tasks |-> IF ends(j) THEN st ELSE sstate[j]]
       /\ sres' = [j \in Tasks |-> IF ends(j) THEN r ELSE sres[j]]
       /\ sowner' = IF sowner = t THEN None ELSE sowner

\* a solving attempt for type y is started with strategy k
StartAttempt(t, y, k) ==
    /\ spc' = [spc EXCEPT ![t] = "attempt"]
    /\ styp' = [styp EXCEPT ![t] = y]
    /\ skind' = [skind EXCEPT ![t] = k]
    /\ sattempts' = [sattempts EXCEPT ![t] = @ + 1]
    /\ UNCHANGED <<sstate, sres, sowner>>

\* SOLVING goes on with the types R not tried yet
SolveNext(t, R) ==
    IF R = {}
    THEN Finish(t, "FAILED", "false") /\ UNCHANGED <<styp, skind, sattempts>>
    ELSE StartAttempt(t, FirstType(R), FirstStrategy(FirstType(R)))

\* detect_and_solve_captchas(timeout = to) is entered by task t
SolverEnter(t, to) ==
    /\ stimeout' = [stimeout EXCEPT ![t] = to]
    /\ expired' = [expired EXCEPT ![t] = (to = 0)]
    /\ sdet' = [sdet EXCEPT ![t] = {}]
    /\ styp' = [styp EXCEPT ![t] = "none"]
    /\ skind' = [skind EXCEPT ![t] = "none"]
    /\ sstate' = [sstate EXCEPT ![t] = "none"]
    /\ sres' = [sres EXCEPT ![t] = "none"]
    /\ sattempts' = [sattempts EXCEPT ![t] = 0]
    /\ IF TaskInFlight
       THEN spc' = [spc EXCEPT ![t] = "joined"] /\ UNCHANGED sowner
       ELSE spc' = [spc EXCEPT ![t] = "detecting"] /\ sowner' = t
    /\ UNCHANGED markers

\* wait_for_captcha_resolution(timeout = to) of the solver is entered by task t
PollEnter(t, to) ==
    /\ stimeout' = [stimeout EXCEPT ![t] = to]
    /\ expired' = [expired EXCEPT ![t] = (to = 0)]
    /\ sdet' = [sdet EXCEPT ![t] = {}]
    /\ styp' = [styp EXCEPT ![t] = "none"]
    /\ skind' = [skind EXCEPT ![t] = "none"]
    /\ sstate' = [sstate EXCEPT ![t] = "none"]
    /\ sres' = [sres EXCEPT ![t] = "none"]
    /\ sattempts' = [sattempts EXCEPT ![t] = 0]
    /\ spc' = [spc EXCEPT ![t] = "polling"]
    /\ UNCHANGED <<sowner, markers>>

\* no call into the solver is made by task t's call
SolverSkipped(t) ==
    /\ stimeout' = [stimeout EXCEPT ![t] = -1]
    /\ expired' = [expired EXCEPT ![t] = FALSE]
    /\ sdet' = [sdet EXCEPT ![t] = {}]
    /\ styp' = [styp EXCEPT ![t] = "none"]
    /\ skind' = [skind EXCEPT ![t] = "none"]
    /\ sstate' = [sstate EXCEPT ![t] = "none"]
    /\ sres' = [sres EXCEPT ![t] = "none"]
    /\ sattempts' = [sattempts EXCEPT ![t] = 0]
    /\ UNCHANGED <<spc, sowner, markers>>

\* what is left alone by every step of the solver
SolverFrame ==
    UNCHANGED <<sessionVars, taskVars, worldVars, obsVars, auto_solve_captchas,
                captcha_solver, navTaskVars, keyVars, dedicated, stimeout, cop, cpc,
                cres, capCalls, permVars, pageVars>>

\* DETECTING is over: the page raised, or it produced the page's markers;
\* none -> RESOLVED, deadline passed -> TIMED_OUT, else SOLVING starts
Detected(t) ==
    /\ spc[t] = "detecting"
    /\ \/ /\ Finish(t, "FAILED", "raised")
          /\ UNCHANGED <<sdet, styp, skind, sattempts>>
       \/ /\ sdet' = [sdet EXCEPT ![t] = markers]
          /\ IF NothingDetected(markers)
             THEN Finish(t, "RESOLVED", "false") /\ UNCHANGED <<styp, skind, sattempts>>
             ELSE IF expired[t]
             THEN Finish(t, "TIMED_OUT", "false") /\ UNCHANGED <<styp, skind, sattempts>>
             ELSE SolveNext(t, markers)
    /\ UNCHANGED <<markers, expired>>
    /\ SolverFrame

\* the attempt in flight has succeeded: RESOLVED, the call returns True
AttemptSucceeded(t) ==
    /\ spc[t] = "attempt"
    /\ DeadlineEnforced => ~expired[t]
    /\ markers' = markers \ {styp[t]}
    /\ Finish(t, "RESOLVED", "true")
    /\ UNCHANGED <<expired, sdet, styp, skind, sattempts>>
    /\ SolverFrame

\* the attempt in flight has failed: a dedicated strategy falls back to the
\* paid backend for the same type, the backend to the next type
AttemptFailed(t) ==
    /\ spc[t] = "attempt"
    /\ DeadlineEnforced => ~expired[t]
    /\ IF skind[t] = "dedicated"
       THEN StartAttempt(t, styp[t], "backend")
       ELSE SolveNext(t, {y \in sdet[t] : Priority(y) > Priority(styp[t])})
    /\ UNCHANGED <<markers, expired, sdet>>
    /\ SolverFrame

\* the deadline of task t's call passes
DeadlinePasses(t) ==
    /\ spc[t] \in {"detecting", "attempt", "joined", "polling"}
    /\ ~expired[t]
    /\ expired' = [expired EXCEPT ![t] = TRUE]
    /\ UNCHANGED <<markers, spc, sdet, styp, skind, sstate, sres, sattempts, sowner>>
    /\ SolverFrame

\* past its deadline the call gives up what it waits for (an attempt, another
\* call's task, the next poll) and returns False
TimedOut(t) ==
    /\ spc[t] \in {"attempt", "joined", "polling"}
    /\ expired[t]
    /\ spc[t] = "attempt" => DeadlineEnforced
    /\ Finish(t, "TIMED_OUT", "false")
    /\ UNCHANGED <<markers, expired, sdet, styp, skind, sattempts>>
    /\ SolverFrame

\* a poll before the deadline finds no captcha: the call returns True
Polled(t) ==
    /\ spc[t] = "polling"
    /\ ~expired[t]
    /\ markers = {}
    /\ Finish(t, "RESOLVED", "true")
    /\ UNCHANGED <<markers, expired, sdet, styp, skind, sattempts>>
    /\ SolverFrame

\* a human or an external process clears the page's challenge
HumanClears ==
    /\ markers # {}
    /\ markers' = {}
    /\ UNCHANGED <<sessionVars, taskVars, worldVars, obsVars, auto_solve_captchas,
                   captcha_solver, navTaskVars, keyVars, dedicated, spc, stimeout,
                   expired, sdet, styp, skind, sstate, sres, sattempts, sowner, cop,
                   cpc, cres, capCalls, permVars, pageVars>>

\* ----------- solve_captchas_manually() and wait_for_captcha_resolution()
\* mutant: wait_for_captcha_resolution runs the detect-and-solve entry point
WaitSolverMethod_Solve == "detect_and_solve_captchas"

\* the solver method wait_for_captcha_resolution awaits
WaitSolverMethod == "wait_for_captcha_resolution"

\* the solver method either session method awaits
SolverMethod(k) ==
    IF k = "manual" THEN "detect_and_solve_captchas" ELSE WaitSolverMethod

\* the session method returns r without awaiting the solver
CapReturnsAtOnce(t, r) ==
    /\ cpc' = [cpc EXCEPT ![t] = "idle"]
    /\ cres' = [cres EXCEPT ![t] = r]
    /\ SolverSkipped(t)

\* solve_captchas_manually(timeout) (k = "manual") or
\* wait_for_captcha_resolution(timeout) (k = "wait") is called: up to its
\* await of the solver, or to `return False` without a page or a solver
CapCall(t, k, to) ==
    /\ npc[t] = "idle"
    /\ cpc[t] = "idle"
    /\ navCalls + capCalls < MaxCapCalls
    /\ capCalls' = capCalls + 1
    /\ cop' = [cop EXCEPT ![t] = k]
    /\ call_page' = [call_page EXCEPT ![t] = agent_current_page]
    /\ LET p == agent_current_page
           s == IF ~captcha_solver
                THEN setup_captcha_solver(p, captcha_solver) ELSE captcha_solver
       IN IF p = None
          THEN CapReturnsAtOnce(t, "false")
               /\ UNCHANGED <<captcha_solver, solver_key, solver_page>>
          ELSE \/ /\ captcha_solver' = s
                  /\ solver_key' = IF s # captcha_solver THEN resolved_api_key
                                   ELSE solver_key
                  /\ solver_page' = IF s THEN p ELSE solver_page
                  /\ IF s
                     THEN /\ cpc' = [cpc EXCEPT ![t] = "solver"]
                          /\ cres' = [cres EXCEPT ![t] = "none"]
                          /\ IF SolverMethod(k) = "detect_and_solve_captchas"
                             THEN SolverEnter(t, to)
                             ELSE PollEnter(t, to)
                     ELSE CapReturnsAtOnce(t, "false")
               \/ \* CaptchaSolver(...) raised
                  /\ s # captcha_solver
                  /\ UNCHANGED <<captcha_solver, solver_key, solver_page>>
                  /\ CapReturnsAtOnce(t, "false")
    /\ UNCHANGED <<sessionVars, taskVars, worldVars, obsVars, auto_solve_captchas,
                   navTaskVars, cfgVars, env_key, dedicated, permVars>>

\* mutant: an error of the solver's method escapes the session method
CaptchaCallErrorTolerated_Not == FALSE

\* `except Exception as e: logger.error(...)` and the `return False` after it
CaptchaCallErrorTolerated == TRUE

\* what the session method does with the outcome r of the solver's method:
\* `return await self.captcha_solver...(timeout=timeout)`, or the except clause
SessionResult(r) ==
    IF r = "raised" THEN (IF CaptchaCallErrorTolerated THEN "false" ELSE "raised") ELSE r

\* the solver's method has returned or raised: the session method returns its
\* value, or False after logging the error
CapReturned(t) ==
    /\ cpc[t] = "solver"
    /\ spc[t] = "done"
    /\ cpc' = [cpc EXCEPT ![t] = "idle"]
    /\ cres' = [cres EXCEPT ![t] = SessionResult(sres[t])]
    /\ spc' = [spc EXCEPT ![t] = "none"]
    /\ UNCHANGED <<sessionVars, taskVars, worldVars, obsVars, auto_solve_captchas,
                   captcha_solver, navTaskVars, keyVars, markers, dedicated, stimeout,
                   expired, sdet, styp, skind, sstate, sres, sattempts, sowner, cop,
                   capCalls, permVars, pageVars>>

\* asyncio.sleep(1) of the handler is over and the solver is entered
HandlerDetectAndSolve(t) ==
    /\ HandlerSleeps(t)
    /\ SolverEnter(t, HandlerTimeout)
    /\ UNCHANGED <<dedicated, cop, cpc, cres, capCalls>>

\* what the handler sees of the solver's call
SolverOutcome(t) ==
    CASE sres[t] = "true" -> "solved"
      [] sres[t] = "false" -> "unsolved"
      [] sres[t] = "raised" -> "raised"

\* detect_and_solve_captchas has returned or raised in the handler
HandlerResumed(t) ==
    /\ npc[t] = "solve"
    /\ spc[t] = "done"
    /\ HandlerOutcome(t, SolverOutcome(t))
    /\ spc' = [spc EXCEPT ![t] = "none"]
    /\ UNCHANGED <<sessionVars, taskVars, worldVars, obsVars, auto_solve_captchas,
                   captcha_solver, nop, navDone, handlerCalls, solveCalls, navCalls,
                   keyVars, markers, dedicated, stimeout, expired, sdet, styp, skind,
                   sstate, sres, sattempts, sowner, cop, cpc, cres, capCalls, permVars, pageVars>>

\* A ready session with auto-solving enabled whose page presents any set of
\* captcha types, with the dedicated strategies usable or not.
InitCap ==
    /\ ReadySession
    /\ auto_solve_captchas = TRUE
    /\ captcha_solver \in BOOLEAN
    /\ NoCaptchaCall(IF captcha_solver THEN 1 ELSE None)
    /\ NavIdle
    /\ Constructed
    /\ NoKeys
    /\ markers \in PageMarkers
    /\ dedicated \in {DedicatedTypes, {}}
    /\ CapCallsIdle
    /\ PermIdle

\* navigate() or refresh() is called, within the bound on calls
CapNavCall(t, k) == navCalls + capCalls < MaxCapCalls /\ NavCall(t, k)

\* os.environ['CAPSOLVER_API_KEY'] is set to k, or deleted
EnvChanges(k) ==
    /\ env_key # k
    /\ env_key' = k
    /\ UNCHANGED <<sessionVars, taskVars, worldVars, obsVars, auto_solve_captchas,
                   captcha_solver, navTaskVars, cfgVars, solver_key, capVars, permVars, pageVars>>

NextCap ==
    \/ \E t \in Tasks :
          \/ CapNavCall(t, "navigate")
          \/ CapNavCall(t, "refresh")
          \/ NavLoaded(t)
          \/ HandlerDetectAndSolve(t)
          \/ HandlerResumed(t)
          \/ HandlerSettled(t)
          \/ \E to \in Timeouts : CapCall(t, "manual", to) \/ CapCall(t, "wait", to)
          \/ CapReturned(t)
          \/ Detected(t)
          \/ AttemptSucceeded(t)
          \/ AttemptFailed(t)
          \/ DeadlinePasses(t)
          \/ TimedOut(t)
          \/ Polled(t)
    \/ HumanClears

SpecCap == InitCap /\ [][NextCap]_vars

\* --------------------------------------------------- the solver's API key
\* A ready session constructed with any capsolver_api_key, in any environment,
\* on a page with or without a captcha; start() has created its solver, or
\* has not.
InitKeys ==
    /\ ReadySession
    /\ auto_solve_captchas \in BOOLEAN
    /\ capsolver_api_key \in {NoKey, "", "configured"}
    /\ env_key \in {NoKey, "", "environment"}
    /\ captcha_solver \in BOOLEAN
    /\ NoCaptchaCall(IF captcha_solver THEN 1 ELSE None)
    /\ solver_key = IF captcha_solver THEN resolved_api_key ELSE NoKey
    /\ NavIdle
    /\ Constructed
    /\ markers \in {{}, {"hcaptcha"}}
    /\ dedicated = DedicatedTypes
    /\ CapCallsIdle
    /\ PermIdle

NextKeys ==
    \/ NextCap
    \/ \E k \in {NoKey, "", "environment"} : EnvChanges(k)

SpecKeys == InitKeys /\ [][NextKeys]_vars

\* ------------------------------------------------------------ construction
\* mutant: auto-solving is off unless it is asked for
DefaultAutoSolve_Off == FALSE

\* `auto_solve_captchas: bool = Field(default=True, ...)`
DefaultAutoSolve == TRUE

\* StealthBrowserSession(**kw): each field takes the argument passed for it,
\* or its default
SessionFields(kw) ==
    /\ browser' = KwOr(kw, "browser", None)
    /\ browser_context' = KwOr(kw, "browser_context", None)
    /\ auto_solve_captchas' = KwOr(kw, "auto_solve_captchas", DefaultAutoSolve)
    /\ capsolver_api_key' = KwOr(kw, "capsolver_api_key", NoKey)
    /\ given' = KwOr(kw, "browser", None)

\* what a constructor leaves alone
CtorFrame ==
    UNCHANGED <<initialized, browser_pid, keep_alive, agent_current_page,
                human_current_page, wss_url, pw_browser, lock, waiters, taskVars,
                worldVars, termSignals, nStop, nClose, nTerm, how, nResolve, nConnect,
                nLaunch, fault, captcha_solver, navTaskVars, env_key, solver_key,
                capVars, permVars, pageVars>>

\* StealthBrowserSession(**kw)
SessionInit(kw) ==
    /\ constructed = "no"
    /\ kwargs' = kw
    /\ constructed' = "session"
    /\ SessionFields(kw)
    /\ CtorFrame

\* `super().__init__(*args, **kwargs)` of StealthAgent.__init__: Agent takes
\* the keyword arguments and returns
AgentBaseInit(kw) == TRUE

\* the keywords StealthAgent.__init__ reads with kwargs[...]
AgentReads == {"browser_profile", "browser", "browser_context"}

\* the keyword arguments StealthAgent.__init__ passes to StealthBrowserSession
\* (with proxy=proxy)
AgentSessionKwargs(kw) == [n \in AgentReads |-> kw[n]]

\* StealthAgent(proxy, **kw): kwargs[...] of a keyword that was not passed
\* raises KeyError
AgentInit(kw) ==
    /\ constructed = "no"
    /\ AgentBaseInit(kw)
    /\ kwargs' = kw
    /\ IF AgentReads \subseteq DOMAIN kw
       THEN /\ constructed' = "agent"
            /\ SessionFields(AgentSessionKwargs(kw))
       ELSE /\ constructed' = "KeyError"
            /\ UNCHANGED <<browser, browser_context, auto_solve_captchas,
                           capsolver_api_key, given>>
    /\ CtorFrame

\* Nothing constructed yet; the caller's browsers and contexts are live.
InitCtor ==
    /\ initialized = FALSE
    /\ browser = None
    /\ browser_context = None
    /\ agent_current_page = None
    /\ human_current_page = None
    /\ browser_pid = None
    /\ keep_alive = FALSE
    /\ wss_url = FALSE
    /\ pw_browser = None
    /\ lock = None
    /\ waiters = <<>>
    /\ pc = [t \in Tasks |-> "idle"]
    /\ op = [t \in Tasks |-> "none"]
    /\ res = [t \in Tasks |-> "none"]
    /\ target = [t \in Tasks |-> NoTarget]
    /\ baseline = {}
    /\ calls = 0
    /\ queued = [t \in Tasks |-> FALSE]
    /\ last = None
    /\ bstate = [b \in Browsers |-> IF b \in ExtBrowsers THEN "live" ELSE "none"]
    /\ bkind = [b \in Browsers |-> "ext"]
    /\ cstate = [c \in Contexts |-> IF c \in ExtContexts THEN "open" ELSE "none"]
    /\ cbrowser = [c \in Contexts |-> IF c \in {1, 2} THEN c ELSE None]
    /\ procs = {}
    /\ termSignals = [p \in Browsers |-> 0]
    /\ nStop = 0
    /\ nClose = 0
    /\ nTerm = 0
    /\ how = "none"
    /\ nResolve = 0
    /\ nConnect = 0
    /\ nLaunch = 0
    /\ fault = FALSE
    /\ given = None
    /\ auto_solve_captchas = DefaultAutoSolve
    /\ captcha_solver = FALSE
    /\ NoCaptchaCall(None)
    /\ NavIdle
    /\ kwargs = NoKwargs
    /\ constructed = "no"
    /\ NoKeys
    /\ CapIdle
    /\ PermIdle

\* a session exists, and the calls made on it are within the bound
CanCall(t) ==
    /\ constructed \in {"session", "agent"}
    /\ pc[t] = "idle" /\ npc[t] = "idle"
    /\ calls + navCalls < MaxCalls

NextCtor ==
    \/ \E kw \in CtorKwargs : SessionInit(kw) \/ AgentInit(kw)
    \/ \E t \in Tasks :
          \/ CanCall(t) /\ StartCall(t)
          \/ CanCall(t) /\ StopCall(t)
          \/ CanCall(t) /\ initialized /\ NavCall(t, "navigate")
          \/ CanCall(t) /\ initialized /\ NavCall(t, "refresh")
          \/ StartAcquired(t)
          \/ StartNewContext(t)
          \/ StartLaunched(t)
          \/ StartLaunchContext(t)
          \/ StartSetupDone(t)
          \/ StopClosed(t)
          \/ NavLoaded(t)
          \/ HandlerSlept(t)
          \/ HandlerSolved(t)
          \/ HandlerSettled(t)

SpecCtor == InitCtor /\ [][NextCtor]_vars

\* ================================================================ claims
\* Steps of a behaviour, as the claims speak of them.
\* task t's start() gets the start lock in this step
StartsNow(t) ==
    /\ last' = t
    /\ \/ pc[t] = "idle" /\ calls' = calls + 1 /\ nStop' = nStop /\ pc'[t] # "start_wait"
       \/ pc[t] = "start_wait"

\* task t calls stop() in this step
StopsNow(t) == last' = t /\ pc[t] = "idle" /\ nStop' = nStop + 1

\* task t's start() raises in this step
StartRaisesNow(t) == last' = t /\ op'[t] = "start" /\ pc'[t] = "idle" /\ res'[t] = "raised"

\* a start() is between taking the lock and returning (STARTING)
Starting == lock # None

\* every task has called start() and got the session back
AllStarted == \A t \in Tasks : op[t] = "start" /\ pc[t] = "idle" /\ res[t] = "ok"

\* the session's browser was launched or attached by the session itself
OwnBrowser == browser # None /\ bkind[browser] \in {"engine", "remote"}

C2_QueuedStartNeverResolves ==
    \A t \in Tasks : queued[t] => pc[t] \in {"start_wait", "idle"}

\* the session is READY: some start() returned it and nothing stopped it
ReadySince == nStop = 0 /\ lock = None
              /\ \E u \in Tasks : op[u] = "start" /\ pc[u] = "idle" /\ res[u] = "ok"

\* C2 as amended: a start() that arrived while another start() was STARTING
\* takes no step until the lock is free, and at most one start() is past the
\* lock at any time; when it gets the lock after a start() that succeeded it
\* returns the READY session without resolving, launching or connecting; after
\* a start() that failed it runs the resolution itself.
C2_QueuedStartWaitsThenReusesOrRetries ==
    /\ [](/\ \A t \in Tasks : pc[t] \in {"wss_driver", "wss_connect", "new_context",
                                         "launch", "launch_ctx", "setup"} => lock = t
          /\ \A t \in Tasks : pc[t] = "start_wait" => queued[t]
          /\ ReadySince => (initialized /\ is_connected))
    /\ [][\A t \in Tasks :
            (last' = t /\ pc[t] = "start_wait")
                => /\ lock = None
                   /\ IF initialized /\ is_connected
                      THEN /\ pc'[t] = "idle" /\ res'[t] = "ok"
                           /\ nResolve' = nResolve /\ nLaunch' = nLaunch
                           /\ nConnect' = nConnect
                           /\ UNCHANGED <<browser, browser_context, browser_pid>>
                      ELSE nResolve' = nResolve + 1]_vars

\* a start() queued behind one that failed, then resolved by itself
C2_Witness ==
    /\ nStop = 0 /\ fault
    /\ \E t \in Tasks : queued[t] /\ pc[t] \in {"launch", "launch_ctx", "setup"}

\* C3: a stop() called while a start() is STARTING changes nothing and tears
\* nothing down until that start() has returned or raised.
C3_StopWaitsForStart ==
    [][\A t \in Tasks :
          (StopsNow(t) /\ Starting)
              => /\ initialized' = initialized
                 /\ nClose' = nClose
                 /\ nTerm' = nTerm]_vars

\* C4: start() on a READY session whose connection is live returns the same
\* session at once: no resolution, no launch, no connect, and browser,
\* browser_context, browser_pid and keep_alive are left as they were.
C4_StartOnReadyIsNoOp ==
    [][\A t \in Tasks :
          (StartsNow(t) /\ initialized /\ is_connected)
              => /\ pc'[t] = "idle" /\ res'[t] = "ok"
                 /\ nResolve' = nResolve /\ nLaunch' = nLaunch /\ nConnect' = nConnect
                 /\ UNCHANGED <<initialized, browser, browser_context, browser_pid,
                                keep_alive, worldVars>>]_vars

\* a second start() returned the READY session that the first had built
C4_Witness ==
    /\ AllStarted /\ initialized /\ is_connected
    /\ calls = MaxCalls /\ nStop = 0
    /\ nResolve = 1 /\ ~fault

\* C5: when a step of start() raises, the caller gets the error, initialized
\* is false and the lock is free; initialized stays false until a start()
\* takes the lock again, and that start() runs the resolution again.
C5_FailedStartRollsBack ==
    [][/\ \A t \in Tasks :
             StartRaisesNow(t) => (~initialized' /\ lock' = None /\ fault')
       /\ (~initialized /\ initialized') => \E t \in Tasks : StartsNow(t)
       /\ \A t \in Tasks :
             (StartsNow(t) /\ ~initialized)
                 => (nResolve' = nResolve + 1 /\ ~(pc'[t] = "idle" /\ res'[t] = "ok"))]_vars

\* a start() failed and a later start() resolved again and returned the session
C5_Witness ==
    /\ fault /\ nResolve = 2 /\ nStop = 0
    /\ initialized /\ is_connected
    /\ \E t \in Tasks : op[t] = "start" /\ pc[t] = "idle" /\ res[t] = "ok"

\* task t's stop() returns in this step
StopReturnsNow(t) ==
    /\ last' = t /\ pc'[t] = "idle"
    /\ \/ pc[t] = "stop_close"
       \/ pc[t] = "idle" /\ nStop' = nStop + 1

\* task t's start() runs the connection resolution in this step
ResolvesNow(t) == StartsNow(t) /\ ~(initialized /\ is_connected) /\ ~StartRaisesNow(t)

\* C6: when start() resolves a connection for a session that holds a live,
\* connected browser handle, it reuses a supplied live browser: no local
\* launch, no remote connect, keep_alive set (not owned), no pid recorded; and
\* as long as that connection is the session's, no pid is recorded and no
\* process is signalled, by stop() or otherwise.
C6_LiveSuppliedBrowserIsReused ==
    /\ [][\A t \in Tasks :
            (ResolvesNow(t) /\ BrowserConnected(browser))
                => /\ how' = "passed"
                   /\ pc'[t] \in {"new_context", "setup"}
                   /\ nLaunch' = nLaunch /\ nConnect' = nConnect
                   /\ browser' # None /\ bstate'[browser'] = "live"
                   /\ bkind'[browser'] = bkind[browser']
                   /\ keep_alive'
                   /\ browser_pid' = browser_pid]_vars
    /\ [][(how = "passed" /\ how' = "passed" /\ browser_pid = None)
            => /\ browser_pid' = None
               /\ keep_alive'
               /\ nLaunch' = nLaunch /\ nConnect' = nConnect
               /\ nTerm' = nTerm /\ termSignals' = termSignals]_vars

\* start() reused the caller's live browser and a stop() followed: nothing
\* was launched, closed or signalled and the browser is still connected
C6_Witness ==
    /\ how = "passed" /\ nResolve = 1 /\ ~fault /\ lock = None
    /\ human_current_page # None /\ ~initialized
    /\ nStop = 1 /\ calls = 2 /\ \A t \in Tasks : pc[t] = "idle"
    /\ browser \in ExtBrowsers /\ BrowserConnected(browser)
    /\ browser_pid = None /\ nTerm = 0 /\ nLaunch = 0 /\ nConnect = 0

\* start() is resolving for the first time a session that was given no page,
\* no context, no browser and no remote URL (every handle a caller could have
\* given is live, so none was cleared as stale)
NothingSupplied ==
    /\ agent_current_page = None /\ browser_context = None /\ ~wss_url
    /\ nResolve = 1 /\ nStop = 0
    /\ \A b \in ExtBrowsers : bstate[b] = "live"
    /\ \A c \in ExtContexts : cstate[c] = "open"

\* C7: with no supplied page, context or browser and no remote URL, whatever
\* keep_alive was configured, start() launches a local engine, records the pid
\* of the process it spawned and marks the connection owned; over the stop()
\* calls that follow, that pid is signalled exactly once.
C7_LocalLaunchRecordedAndTerminatedOnce ==
    /\ [][\A t \in Tasks :
            /\ (ResolvesNow(t) /\ browser = None /\ browser_context = None
                /\ agent_current_page = None /\ ~wss_url)
                   => pc'[t] = "launch"
            /\ (last' = t /\ pc[t] \in {"launch", "launch_ctx"} /\ pc'[t] = "setup"
                /\ NothingSupplied)
                   => (browser_pid' = PidOf(browser') /\ ~keep_alive')
            /\ (StopReturnsNow(t) /\ how = "launch" /\ nResolve = 1 /\ ~fault
                /\ lock = None /\ human_current_page # None)
                   => termSignals'[PidOf(browser)] = 1]_vars
    /\ [](\A p \in Browsers : termSignals[p] <= 1)

\* C8: stop() on a session whose keep_alive is set only resets local state:
\* it returns at once, calls no close() and no terminate(), and leaves every
\* browser, context and process as it was, so the external browser is still
\* connected.
C8_KeepAliveStopTouchesNothing ==
    [][\A t \in Tasks :
          (StopsNow(t) /\ keep_alive)
              => /\ pc'[t] = "idle" /\ res'[t] = "ok"
                 /\ ~initialized'
                 /\ nClose' = nClose /\ nTerm' = nTerm
                 /\ UNCHANGED <<worldVars, termSignals, browser, browser_context,
                                browser_pid, keep_alive>>]_vars

\* two stop() calls on a session attached to the caller's browser: it is
\* still connected and nothing was closed
C8_Witness ==
    /\ how = "passed" /\ keep_alive /\ human_current_page # None
    /\ nStop = 2 /\ nClose = 0 /\ nTerm = 0
    /\ \A t \in Tasks : pc[t] = "idle"
    /\ \E t \in Tasks : op[t] = "stop" /\ res[t] = "ok"
    /\ browser \in ExtBrowsers /\ BrowserConnected(browser)
    /\ browser_context # None /\ cstate[browser_context] = "open"

\* C9: stop() never raises, whatever close() and terminate() do; terminate()
\* is called only after the awaited close() is over, and it is called for a
\* recorded pid whether close() succeeded or raised.
C9_TeardownAlwaysCompletes ==
    /\ [](\A t \in Tasks : op[t] = "stop" => res[t] # "raised")
    /\ [][\A t \in Tasks :
            /\ (last' = t /\ pc[t] = "stop_close")
                   => /\ pc'[t] = "idle" /\ res'[t] = "ok"
                      /\ browser_pid # None => nTerm' = nTerm + 1
            /\ (last' = t /\ nTerm' # nTerm)
                   => \/ pc[t] = "stop_close"
                      \/ StopsNow(t) /\ browser_context = None /\ browser = None]_vars

\* a stop() whose close() raised (the context is still set and open) and whose
\* terminate() was delivered
C9_Witness ==
    /\ nStop = 1 /\ nClose = 1 /\ calls = 2 /\ nResolve = 1 /\ ~keep_alive
    /\ \A t \in Tasks : pc[t] = "idle"
    /\ \E t \in Tasks : op[t] = "stop" /\ res[t] = "ok"
    /\ browser_context # None /\ cstate[browser_context] = "open"
    /\ browser_pid = None /\ \E p \in Browsers : termSignals[p] = 1

\* C10: when stop() returns, on every path, the handles the session exposed
\* after start() (page, context, browser, foreground-page tracking) are null.
C10_StopClearsAllHandles ==
    [][\A t \in Tasks :
          (StopReturnsNow(t) /\ human_current_page # None)
              => /\ browser' = None
                 /\ browser_context' = None
                 /\ agent_current_page' = None
                 /\ human_current_page' = None]_vars

\* a connection was established and exposed by an earlier start(), a stop()
\* has been called since and has returned, and no start() is under way
StoppedAfterReady ==
    /\ human_current_page # None /\ ~initialized /\ nStop > 0
    /\ lock = None /\ \A u \in Tasks : pc[u] # "stop_close"

\* C11: the start() that follows a returned stop() is not a no-op: it runs the
\* connection resolution again, and the resolution adopts none of the handles
\* of the stopped connection, so that it goes on to attach or launch afresh.
C11_RestartGetsFreshConnection ==
    [][\A t \in Tasks :
          (StartsNow(t) /\ StoppedAfterReady)
              => /\ nResolve' = nResolve + 1
                 /\ ~StartRaisesNow(t)
                       => /\ pc'[t] \in {"launch", "wss_driver"}
                          /\ browser' = None /\ browser_context' = None]_vars

\* the resolution of the start() under way has already marked its connection:
\* external (keep-alive set on reuse or remote attach) or owned (pid recorded)
OwnershipMarked == how \in {"passed", "wss"} \/ browser_pid # None

\* C12: the ownership marking (keep_alive, recorded pid) is written only while
\* a connection is being established, and once per connection: a step that
\* changes keep_alive or records a pid is the first step of a resolution, or a
\* later step of a start() whose resolution has not marked the connection yet.
C12_OwnershipMarkedOncePerConnection ==
    [][(keep_alive' # keep_alive \/ (browser_pid = None /\ browser_pid' # None))
          => \E t \in Tasks :
                /\ last' = t
                /\ \/ StartsNow(t)
                   \/ /\ pc[t] \in {"wss_connect", "new_context", "launch", "launch_ctx"}
                      /\ ~OwnershipMarked]_vars

\* the live browser connections the session has established for itself
OwnLiveConnections ==
    {b \in Browsers : bstate[b] = "live" /\ bkind[b] \in {"engine", "remote"}}

\* C13: in every reachable state the session has established at most one
\* browser connection that is live, and at most one engine process that it
\* spawned is running.
C13_AtMostOneLiveConnection ==
    /\ Cardinality(OwnLiveConnections) <= 1
    /\ Cardinality(procs) <= 1

ContextLive(c) ==
    /\ c # None /\ ~ContextPagesRaises(c)
    /\ ContextBrowser(c) # None => BrowserConnected(ContextBrowser(c))

\* C15: when the context of the supplied page fails the liveness check, only
\* that candidate is dropped: a live context supplied beside the page is
\* reused, and otherwise a live browser supplied beside it, and the resolution
\* does not turn to the remote endpoint or to a local launch.
C15_DeadPageDoesNotHideLiveHandles ==
    [][\A t \in Tasks :
          (/\ ResolvesNow(t)
           /\ agent_current_page # None
           /\ ~ContextLive(PageContext(agent_current_page))
           /\ browser_context # PageContext(agent_current_page)
           /\ ContextLive(browser_context) \/ BrowserConnected(browser))
              => /\ pc'[t] \notin {"wss_driver", "launch"}
                 /\ ContextLive(browser_context) => browser_context' = browser_context
                 /\ (~ContextLive(browser_context) /\ BrowserConnected(browser))
                       => browser' = browser]_vars

\* C16: when the session holds a live context (its page, if any, belongs to
\* it) and a browser object that is not the context's browser, and the
\* context's browser is connected, the resolution keeps the context and makes
\* the context's browser the session's browser.
C16_ContextBrowserTakesPrecedence ==
    [][\A t \in Tasks :
          (/\ ResolvesNow(t)
           /\ agent_current_page # None => PageContext(agent_current_page) = browser_context
           /\ ContextLive(browser_context)
           /\ ContextBrowser(browser_context) # None
           /\ browser # None /\ browser # ContextBrowser(browser_context))
              => /\ browser' = ContextBrowser(browser_context)
                 /\ browser_context' = browser_context
                 /\ pc'[t] = "setup"]_vars

\* the session was constructed with browser 2 and a context of browser 1, and
\* its first start() has returned on browser 1
C16_Witness ==
    /\ given # None /\ browser # None /\ browser # given /\ BrowserConnected(given)
    /\ browser_context # None /\ browser = ContextBrowser(browser_context)
    /\ how = "passed" /\ nResolve = 1 /\ nStop = 0 /\ ~fault
    /\ \E t \in Tasks : op[t] = "start" /\ pc[t] = "idle" /\ res[t] = "ok"

\* the context the resolution examines: the page's, else the session's
CandidateContext ==
    IF agent_current_page # None THEN PageContext(agent_current_page) ELSE browser_context

\* C17: a resolution turns to the remote endpoint exactly when a wss_url is
\* configured and neither the candidate context nor the session's browser is
\* live.  The step that connects marks the connection keep-alive and records no
\* pid; and while the remote connection is the session's, the marking stays,
\* no close() and no terminate() is issued, no signal is delivered and the
\* remote browser's state is not changed.
C17_RemoteAttachIsExternal ==
    [][/\ \A t \in Tasks :
            /\ ResolvesNow(t)
                  => (pc'[t] = "wss_driver"
                        <=> (wss_url /\ ~ContextLive(CandidateContext)
                             /\ ~BrowserConnected(browser)))
            /\ (last' = t /\ nConnect' # nConnect)
                  => /\ keep_alive' /\ how' = "wss"
                     /\ browser_pid' = browser_pid
                     /\ browser' # None /\ bkind'[browser'] = "remote"
       /\ (how = "wss" /\ how' = "wss")
             => /\ keep_alive'
                /\ browser' = browser /\ bstate'[browser] = bstate[browser]
                /\ browser_pid' = browser_pid
                /\ nClose' = nClose /\ nTerm' = nTerm /\ termSignals' = termSignals]_vars

\* start() attached to the remote endpoint and returned, stop() followed: the
\* remote browser is still connected and nothing was closed or signalled
C17_Witness ==
    /\ how = "wss" /\ keep_alive /\ ~initialized /\ human_current_page # None
    /\ nStop >= 1 /\ nClose = 0 /\ nTerm = 0 /\ browser_pid = None
    /\ browser # None /\ bkind[browser] = "remote" /\ BrowserConnected(browser)
    /\ \A t \in Tasks : pc[t] = "idle"
    /\ \E t \in Tasks : op[t] = "stop" /\ res[t] = "ok"

\* C18: the pid the session has recorded, and every pid that has received a
\* termination signal from the session, is the pid of an engine that this
\* session's own local launch spawned, whatever other sessions of the process
\* launch meanwhile.
C18_RecordsOnlyOwnEngine ==
    /\ browser_pid # None => bkind[browser_pid] = "engine"
    /\ \A p \in Browsers : termSignals[p] > 0 => bkind[p] = "engine"

\* task t's start() returns the session in this step
StartReturnsNow(t) ==
    last' = t /\ op'[t] = "start" /\ pc'[t] = "idle" /\ res'[t] = "ok"

\* C19: whenever start() returns normally, the session holds a context and,
\* if it holds a browser, that browser is connected.
C19_StartReturnsValidConnection ==
    [][\A t \in Tasks :
          StartReturnsNow(t)
              => /\ browser_context' # None
                 /\ browser' # None => bstate'[browser'] = "live"]_vars

\* C20: a navigate()/refresh() call runs the captcha handler at most once,
\* only after its underlying navigation has completed and only with
\* auto-solving enabled; the handler calls the solver at most once; with
\* auto-solving disabled no handler is ever run; and a call that has returned
\* has no handler still running.
C20_HandlerOnceAfterNavigation ==
    \A t \in Tasks :
        /\ handlerCalls[t] <= 1 /\ solveCalls[t] <= handlerCalls[t]
        /\ handlerCalls[t] > 0 => (navDone[t] /\ auto_solve_captchas)
        /\ hstate[t] # "none" <=> handlerCalls[t] = 1
        /\ npc[t] = "nav" => (handlerCalls[t] = 0 /\ ~navDone[t])
        /\ npc[t] = "idle" => hstate[t] # "running"
        /\ npc[t] \in {"sleep1", "solve", "sleep2"} => hstate[t] = "running"

\* a navigation call ran the handler, the solver was called, and the call has
\* returned after the handler finished
C20_Witness ==
    \E t \in Tasks :
        /\ nop[t] \in {"navigate", "refresh"} /\ npc[t] = "idle" /\ nres[t] = "ok"
        /\ navDone[t] /\ handlerCalls[t] = 1 /\ solveCalls[t] = 1
        /\ hstate[t] = "finished" /\ auto_solve_captchas

\* C21: a navigate()/refresh() call raises exactly when its underlying
\* navigation failed, and then no captcha handling was started for it; an
\* error inside captcha handling ends the handler and the call returns
\* normally.
C21_OnlyNavigationErrorsPropagate ==
    \A t \in Tasks :
        /\ nres[t] = "raised"
              => (~navDone[t] /\ handlerCalls[t] = 0 /\ hstate[t] = "none")
        /\ (npc[t] = "idle" /\ nop[t] # "none" /\ ~navDone[t]) => nres[t] = "raised"
        /\ (npc[t] = "idle" /\ navDone[t]) => nres[t] = "ok"
        /\ hstate[t] = "failed" => (npc[t] = "idle" /\ nres[t] = "ok")

\* detect_and_solve_captchas raised inside the handler of a call that has
\* returned normally, and another call's navigation failed
C21_Witness ==
    /\ \E t \in Tasks : /\ hstate[t] = "failed" /\ solveCalls[t] = 1
                        /\ npc[t] = "idle" /\ nres[t] = "ok"
    /\ \E t \in Tasks : nres[t] = "raised" /\ npc[t] = "idle"

\* the calls whose captcha task is in flight on the page
InFlight == {t \in Tasks : spc[t] \in {"detecting", "attempt"}}

\* task t's call into the solver starts a solving attempt in this step
AttemptStarts(t) == sattempts'[t] = sattempts[t] + 1

\* task t's call into the solver ends in this step
CallEnds(t) == spc[t] # "done" /\ spc'[t] = "done"

\* C22: at most one captcha task is in flight on the page; a call made through
\* navigate(), refresh() or solve_captchas_manually() while a task is in
\* flight waits for that task (until its own deadline) and starts no attempt
\* of its own, so at most one attempt at a time reaches the backend.
C22_OneTaskInFlightPerPage ==
    /\ Cardinality(InFlight) <= 1
    /\ \A t \in Tasks :
          /\ spc[t] = "attempt" => sowner = t
          /\ spc[t] = "joined" => sattempts[t] = 0
          /\ (spc[t] = "joined" /\ ~expired[t]) => sowner \in InFlight \ {t}

\* a navigation's handler waits for the task of a manual call whose attempt is
\* at the paid backend
C22_Witness ==
    \E t, j \in Tasks :
        /\ spc[t] = "attempt" /\ skind[t] = "backend" /\ cop[t] = "manual"
        /\ cpc[t] = "solver"
        /\ spc[j] = "joined" /\ npc[j] = "solve"

\* C23: the timeout is a hard deadline: no solving attempt is started once it
\* has passed, a call that ends after it never returns True (an attempt's late
\* result is not used) and ends TIMED_OUT unless it detected nothing, and the
\* session's method returns False; a call with timeout 0 makes no attempt.
C23_TimeoutIsHardDeadline ==
    [][\A t \in Tasks :
          /\ AttemptStarts(t) => ~expired[t]
          /\ (CallEnds(t) /\ expired[t]) =>
                /\ sres'[t] # "true"
                /\ sstate'[t] = "TIMED_OUT" \/ sdet'[t] = {}
          /\ (cpc[t] = "solver" /\ cpc'[t] = "idle" /\ expired[t]) => cres'[t] = "false"
          /\ stimeout'[t] = 0 => (sattempts'[t] = 0 /\ sres'[t] # "true")]_vars

\* solve_captchas_manually(0) has returned False, TIMED_OUT, on a page with a
\* detected captcha, and another call's attempt was abandoned at its deadline
C23_Witness ==
    \E t, j \in Tasks :
        /\ cop[t] = "manual" /\ stimeout[t] = 0 /\ sdet[t] # {}
        /\ sstate[t] = "TIMED_OUT" /\ cres[t] = "false" /\ cpc[t] = "idle"
        /\ stimeout[j] = HandlerTimeout /\ expired[j] /\ sattempts[j] >= 1
        /\ sstate[j] = "TIMED_OUT" /\ sres[j] = "false"

\* C24: when detection produces the empty set the task goes straight to
\* RESOLVED and the call returns False, no solving attempt having been made.
C24_NothingDetectedNothingAttempted ==
    [][\A t \in Tasks :
          (spc[t] = "detecting" /\ spc'[t] # "detecting" /\ markers = {}
              /\ sres'[t] # "raised")
          => /\ spc'[t] = "done"
             /\ sstate'[t] = "RESOLVED"
             /\ sres'[t] = "false"
             /\ sattempts'[t] = 0]_vars

\* a manual call on a page without captcha has returned False without attempts
C24_Witness ==
    \E t \in Tasks :
        /\ cop[t] = "manual" /\ cpc[t] = "idle" /\ cres[t] = "false"
        /\ stimeout[t] = HandlerTimeout /\ ~expired[t]
        /\ sstate[t] = "RESOLVED" /\ sdet[t] = {} /\ sattempts[t] = 0

\* C25: attempts are made on the detected types in the order reCAPTCHA v2,
\* reCAPTCHA v3, hCaptcha, others, none skipped; the paid backend is tried for
\* a type only when the type has no dedicated strategy or its dedicated attempt
\* has just failed; a call returns True only from an attempt that succeeded
\* before its deadline (or from the task it waited for), and the session's
\* method returns True exactly then.
C25_PriorityOrderThenBackend ==
    [][\A t \in Tasks :
          /\ AttemptStarts(t) =>
                /\ styp'[t] \in sdet'[t]
                /\ \A z \in sdet'[t] :
                      Priority(z) < Priority(styp'[t]) =>
                          (styp[t] # "none" /\ Priority(z) <= Priority(styp[t]))
                /\ styp[t] # "none" =>
                      \/ Priority(styp[t]) < Priority(styp'[t])
                      \/ /\ styp'[t] = styp[t]
                         /\ skind[t] = "dedicated"
                         /\ skind'[t] = "backend"
                /\ skind'[t] = "backend" =>
                      \/ styp'[t] \notin dedicated
                      \/ /\ spc[t] = "attempt"
                         /\ styp[t] = styp'[t]
                         /\ skind[t] = "dedicated"
          /\ (sres[t] # "true" /\ sres'[t] = "true" /\ stimeout[t] # -1
                /\ spc[t] \in {"detecting", "attempt", "joined"}) =>
                /\ ~expired[t]
                /\ \E o \in Tasks : spc[o] = "attempt" /\ sowner = o /\ ~expired[o]
                /\ spc[t] \in {"attempt", "joined"}
          /\ (cpc[t] = "solver" /\ cpc'[t] = "idle") =>
                (cres'[t] = "true" <=> sres[t] = "true")]_vars

\* a call went through a failed dedicated attempt and a failed backend attempt
\* for reCAPTCHA v2 before its attempt for the others succeeded
C25_Witness ==
    \E t \in Tasks :
        /\ sdet[t] = {"recaptcha_v2", "other"}
        /\ sattempts[t] = 3 /\ styp[t] = "other" /\ skind[t] = "backend"
        /\ sres[t] = "true" /\ cop[t] = "manual" /\ cres[t] = "true"

\* C26: wait_for_captcha_resolution() only polls: its call never runs the
\* detect-and-solve entry point, never owns a captcha task and never starts a
\* solving attempt; it returns True only from a poll before the deadline that
\* found no captcha, and False once the deadline has passed.
C26_WaitOnlyPolls ==
    [][\A t \in Tasks :
          (cop'[t] = "wait" /\ cpc'[t] = "solver") =>
             /\ spc'[t] \in {"polling", "done"}
             /\ sattempts'[t] = 0
             /\ sowner' # t
             /\ (sres[t] # "true" /\ sres'[t] = "true") => (markers = {} /\ ~expired[t])
             /\ (CallEnds(t) /\ expired[t]) => sres'[t] = "false"]_vars

\* one wait returned True after the page's captcha was cleared, another
\* returned False at its deadline while the page still presented a captcha
C26_Witness ==
    \E t, j \in Tasks :
        /\ cop[t] = "wait" /\ cpc[t] = "idle" /\ cres[t] = "true"
        /\ cop[j] = "wait" /\ cpc[j] = "idle" /\ cres[j] = "false"
        /\ stimeout[j] = HandlerTimeout /\ expired[j]

\* C27: a solver the session creates is given the configured key when one is
\* set (a non-empty string), else the environment's key when there is one, else
\* no key; the configured key wins over the environment's; a solver keeps the
\* key it was created with.
C27_SolverGetsResolvedKey ==
    [][/\ (~captcha_solver /\ captcha_solver') =>
             /\ Truthy(capsolver_api_key) => solver_key' = capsolver_api_key
             /\ (~Truthy(capsolver_api_key) /\ Truthy(env_key)) => solver_key' = env_key
             /\ (~Truthy(capsolver_api_key) /\ ~Truthy(env_key)) => ~Truthy(solver_key')
       /\ (captcha_solver' = captcha_solver) => solver_key' = solver_key]_vars

\* a solver was created with the configured key while the environment holds
\* another key
C27_Witness ==
    /\ captcha_solver
    /\ solver_key = "configured"
    /\ capsolver_api_key = "configured"
    /\ env_key = "environment"
    /\ \E t \in Tasks : handlerCalls[t] = 1 \/ cop[t] # "none"

\* C28: a session constructed without captcha options has
\* auto_solve_captchas = True and capsolver_api_key = None, one constructed
\* with them holds the values passed, and this stays so through start(),
\* stop(), navigate(), refresh() and captcha handling.
C28_CaptchaOptionsStoredAndKept ==
    constructed = "session" =>
        /\ auto_solve_captchas = KwOr(kwargs, "auto_solve_captchas", TRUE)
        /\ capsolver_api_key = KwOr(kwargs, "capsolver_api_key", NoKey)

\* a session constructed with a custom key only has been started, has run the
\* captcha handler after a navigation, and has been stopped
C28_Witness ==
    /\ constructed = "session"
    /\ "auto_solve_captchas" \notin DOMAIN kwargs
    /\ "capsolver_api_key" \in DOMAIN kwargs
    /\ \E t \in Tasks : handlerCalls[t] = 1 /\ npc[t] = "idle"
    /\ nStop = 1
    /\ \A t \in Tasks : pc[t] = "idle"

\* C29: the session built by StealthAgent(...) carries the auto_solve_captchas
\* and capsolver_api_key passed to the agent.
C29_AgentForwardsCaptchaOptions ==
    constructed = "agent" =>
        /\ "auto_solve_captchas" \in DOMAIN kwargs
              => auto_solve_captchas = kwargs["auto_solve_captchas"]
        /\ "capsolver_api_key" \in DOMAIN kwargs
              => capsolver_api_key = kwargs["capsolver_api_key"]

\* C30: StealthAgent(browser_profile=..., proxy=...) without browser and
\* browser_context constructs a session whose browser and browser_context are
\* None, and start() on it resolves by local launch.
C30_AgentWithoutBrowserLaunches ==
    (constructed \in {"agent", "KeyError"}
        /\ "browser_profile" \in DOMAIN kwargs
        /\ "browser" \notin DOMAIN kwargs
        /\ "browser_context" \notin DOMAIN kwargs)
    => /\ constructed = "agent"
       /\ given = None
       /\ how \in {"none", "launch"}

\* ------------------------------------------------ permissions of new contexts
\* The lifecycle of a session whose profile lists any of PermLists, given a
\* connected browser without an open context (browser 1, whose context 1 was
\* closed) or no browser, with or without a remote endpoint.
InitPerm ==
    /\ initialized = FALSE
    /\ browser \in {1, None}
    /\ browser_context = None
    /\ agent_current_page = None
    /\ human_current_page = None
    /\ browser_pid = None
    /\ keep_alive = FALSE
    /\ wss_url \in BOOLEAN
    /\ pw_browser = None
    /\ lock = None
    /\ waiters = <<>>
    /\ pc = [t \in Tasks |-> "idle"]
    /\ op = [t \in Tasks |-> "none"]
    /\ res = [t \in Tasks |-> "none"]
    /\ target = [t \in Tasks |-> NoTarget]
    /\ baseline = {}
    /\ calls = 0
    /\ queued = [t \in Tasks |-> FALSE]
    /\ last = None
    /\ bstate = [b \in Browsers |-> IF b \in ExtBrowsers THEN "live" ELSE "none"]
    /\ bkind = [b \in Browsers |-> "ext"]
    /\ cstate = [c \in Contexts |-> IF c = 1 THEN "closed"
                                    ELSE IF c \in ExtContexts THEN "open" ELSE "none"]
    /\ cbrowser = [c \in Contexts |-> IF c \in {1, 2} THEN c ELSE None]
    /\ procs = {}
    /\ termSignals = [p \in Browsers |-> 0]
    /\ nStop = 0
    /\ nClose = 0
    /\ nTerm = 0
    /\ how = "none"
    /\ nResolve = 0
    /\ nConnect = 0
    /\ nLaunch = 0
    /\ fault = FALSE
    /\ given = browser
    /\ auto_solve_captchas = TRUE
    /\ captcha_solver = FALSE
    /\ NoCaptchaCall(None)
    /\ NavIdle
    /\ Constructed
    /\ NoKeys
    /\ CapIdle
    /\ permissions \in PermLists
    /\ ctx_permissions = <<>>

SpecPerm == InitPerm /\ [][Next]_vars

\* C31: every context the session created was given the profile's permissions
\* list filtered to the supported subset, the supported entries in their
\* original order, whichever path created it (fails: a context created in an
\* existing browser is given the list unfiltered)
C31_PermissionsFilteredOnEveryPath ==
    \A c \in DOMAIN ctx_permissions : ctx_permissions[c] = SupportedOnly(permissions)

\* ------------------------------------------- stop() beside the captcha tasks
\* A session that start() has returned after a local launch: engine 3 with the
\* session's own context 4, pid 3 recorded, keep_alive off.
LaunchedSession ==
    /\ initialized = TRUE
    /\ browser = 3
    /\ browser_context = 4
    /\ agent_current_page = 4
    /\ human_current_page = 4
    /\ browser_pid = 3
    /\ keep_alive = FALSE
    /\ wss_url = FALSE
    /\ pw_browser = 3
    /\ lock = None
    /\ waiters = <<>>
    /\ pc = [t \in Tasks |-> "idle"]
    /\ op = [t \in Tasks |-> IF t = 1 THEN "start" ELSE "none"]
    /\ res = [t \in Tasks |-> IF t = 1 THEN "ok" ELSE "none"]
    /\ target = [t \in Tasks |-> NoTarget]
    /\ baseline = {}
    /\ calls = 1
    /\ queued = [t \in Tasks |-> FALSE]
    /\ last = 1
    /\ bstate = [b \in Browsers |-> IF b \in ExtBrowsers \cup {3} THEN "live" ELSE "none"]
    /\ bkind = [b \in Browsers |-> IF b = 3 THEN "engine" ELSE "ext"]
    /\ cstate = [c \in Contexts |-> IF c \in ExtContexts \cup {4} THEN "open" ELSE "none"]
    /\ cbrowser = [c \in Contexts |-> IF c \in {1, 2} THEN c ELSE IF c = 4 THEN 3 ELSE None]
    /\ procs = {3}
    /\ termSignals = [p \in Browsers |-> 0]
    /\ nStop = 0
    /\ nClose = 0
    /\ nTerm = 0
    /\ how = "launch"
    /\ nResolve = 1
    /\ nConnect = 0
    /\ nLaunch = 1
    /\ fault = FALSE
    /\ given = None
    /\ permissions = ProfilePermissions
    /\ ctx_permissions = (4 :> SupportedOnly(ProfilePermissions))

\* ... its solver set up by start(), its page presenting captchas that need
\* the external backend
InitStop ==
    /\ LaunchedSession
    /\ auto_solve_captchas = TRUE
    /\ captcha_solver = TRUE
    /\ NoCaptchaCall(4)
    /\ NavIdle
    /\ Constructed
    /\ NoKeys
    /\ markers \in {{"hcaptcha"}, {"recaptcha_v2", "other"}}
    /\ dedicated = DedicatedTypes
    /\ CapCallsIdle

\* task t is in no method of the session, and the calls made on the session
\* are within the bound
StopCanCall(t) ==
    /\ pc[t] = "idle" /\ npc[t] = "idle" /\ cpc[t] = "idle"
    /\ calls + navCalls + capCalls < MaxCalls

\* navigate() with its captcha handler, solve_captchas_manually() and stop()
\* called by the tasks
NextStop ==
    \E t \in Tasks :
        \/ StopCanCall(t) /\ NavCall(t, "navigate")
        \/ NavLoaded(t)
        \/ HandlerDetectAndSolve(t)
        \/ HandlerResumed(t)
        \/ HandlerSettled(t)
        \/ StopCanCall(t) /\ CapCall(t, "manual", HandlerTimeout)
        \/ CapReturned(t)
        \/ Detected(t)
        \/ AttemptSucceeded(t)
        \/ AttemptFailed(t)
        \/ DeadlinePasses(t)
        \/ TimedOut(t)
        \/ StopCanCall(t) /\ StopCall(t)
        \/ StopClosed(t)

\* a solving attempt of task u is suspended in the call to the external backend
BackendCallSuspended(u) == spc[u] = "attempt" /\ skind[u] = "backend"

\* the backend answers the attempt of task u, with a solution or without
BackendResponds(u) ==
    BackendCallSuspended(u) /\ (AttemptSucceeded(u) \/ AttemptFailed(u))

\* The event loop resumes a stop() whose close() has settled, and the backend
\* answers every call made to it.
SpecStop ==
    /\ InitStop
    /\ [][NextStop]_vars
    /\ \A t \in Tasks : WF_vars(StopClosed(t)) /\ WF_vars(BackendResponds(t))

\* C32: a stop() that is under way while a captcha task is suspended in a
\* call to the external backend eventually returns
C32_StopCompletesBesideBackendCall ==
    \A t \in Tasks :
        (pc[t] = "stop_close" /\ \E u \in Tasks \ {t} : BackendCallSuspended(u))
            ~> (pc[t] = "idle" /\ op[t] = "stop")

\* a stop() that closed the context has returned while the backend call of
\* another task is still suspended
C32_Witness ==
    \E t \in Tasks :
        /\ op[t] = "stop" /\ pc[t] = "idle" /\ res[t] = "ok" /\ nClose > 0
        /\ \E u \in Tasks \ {t} : BackendCallSuspended(u)

\* the context the session held when the stop() of task t began to await
\* close() (None when it awaits the close() of the browser)
SeenContext(t) == IF target[t].kind = "context" THEN target[t].id ELSE None

\* the stop() of task t resumes from close() in this step
StopResumes(t) == pc[t] = "stop_close" /\ pc'[t] = "idle"

\* C33: a stop() that resumes from close() leaves alone what a start() has
\* established since that stop() began: it does not null a browser_context
\* assigned meanwhile, nor signal or forget a browser_pid recorded meanwhile
\* (fails: stop() nulls whatever browser_context is and signals whatever
\* browser_pid is when it resumes)
C33_StopSparesLaterConnection ==
    [][\A t \in Tasks :
          StopResumes(t) =>
              /\ (browser_context # None /\ browser_context # SeenContext(t))
                    => browser_context' = browser_context
              /\ (browser_pid # None /\ browser_pid # target[t].pid)
                    => /\ browser_pid' = browser_pid
                       /\ termSignals'[browser_pid] = termSignals[browser_pid]]_vars

\* C34: whenever a start() returns normally the session is READY: initialized
\* is set and the session holds an open context (and a connected browser, if
\* any), so that the next start() would return at once (fails: a stop() that
\* ran while the start() was suspended has cleared initialized, or torn down
\* what the start() resolved)
C34_StartReturnsReady ==
    [][\A t \in Tasks :
          StartReturnsNow(t)
              => /\ initialized'
                 /\ browser_context' # None /\ cstate'[browser_context'] = "open"
                 /\ browser' # None => bstate'[browser'] = "live"]_vars

\* the engine processes the session has spawned (for a local launch or to
\* obtain the driver object) that are running
SpawnedRunning == {e \in procs : bkind[e] \in {"engine", "driver"}}

\* C35: when a start() returns normally, every running engine process the
\* session has spawned is the one recorded as browser_pid (fails: the engine
\* started to obtain the driver object is spawned before the baseline of child
\* processes is taken and is never recorded; a launched engine that is not
\* detected is not recorded either)
C35_NoUnrecordedEngine ==
    [][\A t \in Tasks :
          StartReturnsNow(t)
              => \A e \in SpawnedRunning' : browser_pid' = PidOf(e)]_vars

\* C36: no engine is launched while the session holds a live context, and
\* when a start() returns normally on a context, the session's browser is the
\* browser of that context, or the context has none and the browser is not an
\* engine the session launched (fails: a supplied context without a browser
\* object leaves self.browser empty, which is all the launch looks at)
C36_NoLaunchBesideResolvedContext ==
    [][\A t \in Tasks :
          /\ (last' = t /\ nLaunch' # nLaunch) => ~ContextLive(browser_context)
          /\ (StartReturnsNow(t) /\ browser_context' # None)
                => IF cbrowser'[browser_context'] # None
                   THEN browser' = cbrowser'[browser_context']
                   ELSE browser' # None => bkind'[browser'] # "engine"]_vars

\* C37: an engine process spawned by a start() that then fails is not lost:
\* when the start() raises, every running engine process the session has
\* spawned is the recorded browser_pid; a recorded pid is given up only in a
\* step that sends it the termination signal; and the session never has two
\* spawned engine processes running (fails: an engine whose start() fails
\* before the detection of new child processes is never recorded, and the
\* retry spawns another one beside it)
C37_FailedStartKeepsEngineRecorded ==
    /\ [][\A t \in Tasks :
            StartRaisesNow(t) => \A e \in SpawnedRunning' : browser_pid' = PidOf(e)]_vars
    /\ [][(browser_pid # None /\ browser_pid' # browser_pid)
            => termSignals'[browser_pid] = termSignals[browser_pid] + 1]_vars
    /\ [](Cardinality(SpawnedRunning) <= 1)

\* ------------------------------------ captcha calls beside start() and stop()
\* A locally launched READY session; with auto-solving enabled start() has set
\* up the solver on the session's page, without it there is no solver yet.
InitPage ==
    /\ LaunchedSession
    /\ auto_solve_captchas \in BOOLEAN
    /\ captcha_solver = auto_solve_captchas
    /\ NoCaptchaCall(IF captcha_solver THEN agent_current_page ELSE None)
    /\ NavIdle
    /\ Constructed
    /\ NoKeys
    /\ markers = {"hcaptcha"}
    /\ dedicated = DedicatedTypes
    /\ CapCallsIdle

\* task t is in no method of the session
PageCanCall(t) == pc[t] = "idle" /\ npc[t] = "idle" /\ cpc[t] = "idle"

\* the current page, if any, is open
PageOpen == agent_current_page # None => cstate[PageContext(agent_current_page)] = "open"

\* the underlying navigation is over: on a closed page it has raised
PageNavLoaded(t) == NavLoaded(t) /\ (navDone'[t] => PageOpen)

\* start(), stop(), navigate() with its captcha handler and
\* solve_captchas_manually() called by the tasks, start() while no other
\* start() is under way and navigate() on a started session
NextPage ==
    \E t \in Tasks :
        \/ PageCanCall(t) /\ LockFree /\ StartCall(t)
        \/ StartNewContext(t)
        \/ StartLaunched(t)
        \/ StartLaunchContext(t)
        \/ StartSetupDone(t)
        \/ PageCanCall(t) /\ StopCall(t)
        \/ StopClosed(t)
        \/ PageCanCall(t) /\ initialized /\ CapNavCall(t, "navigate")
        \/ PageNavLoaded(t)
        \/ HandlerDetectAndSolve(t)
        \/ HandlerResumed(t)
        \/ HandlerSettled(t)
        \/ PageCanCall(t) /\ CapCall(t, "manual", HandlerTimeout)
        \/ CapReturned(t)
        \/ Detected(t)
        \/ AttemptSucceeded(t)
        \/ AttemptFailed(t)
        \/ DeadlinePasses(t)
        \/ TimedOut(t)

SpecPage == InitPage /\ [][NextPage]_vars

\* task t is inside a method of the solver
InSolverCall(t) == npc[t] = "solve" \/ cpc[t] = "solver"

\* task t's captcha handler calls detect_and_solve_captchas in this step
HandlerInvokes(t) == npc[t] = "sleep1" /\ npc'[t] = "solve"

\* a start() sets up a new solver object in this step
SolverReplaced == \E t \in Tasks : pc[t] = "setup" /\ pc'[t] = "idle" /\ res'[t] = "ok"

\* C38: the solver works on the page that was the session's current page when
\* the call began: the handler invokes the solver while solver.page is that
\* page, and while a task is inside a solver method on that page no step
\* re-points the solver object (fails: the solver is shared by all calls and
\* re-pointed or replaced from the session's current page by whichever call or
\* start() comes next)
C38_SolverStaysOnCallPage ==
    [][\A t \in Tasks :
          /\ HandlerInvokes(t) => solver_page = call_page[t]
          /\ (InSolverCall(t) /\ solver_page = call_page[t] /\ ~SolverReplaced)
                => solver_page' = solver_page]_vars

\* the start() of task t leaves its setup stage in this step
SetupEnds(t) == last' = t /\ pc[t] = "setup" /\ pc'[t] = "idle"

\* C39: setting up the captcha solver cannot fail start().  A start() that has
\* set up its page tracking, so that only the solver is left to set up,
\* returns normally without rolling back initialized, whether the solver was
\* constructed or its construction raised; a start() changes the solver only
\* with auto-solving enabled, and then the solver is on the session's current
\* page, which is open; with auto-solving disabled start(), stop(), navigate()
\* and refresh() construct no solver.
C39_SolverSetupNeverFailsStart ==
    /\ [][\A t \in Tasks :
            SetupEnds(t) =>
                /\ (agent_current_page' # agent_current_page
                    \/ human_current_page' # human_current_page)
                      => (res'[t] = "ok" /\ initialized' = initialized)
                /\ (captcha_solver' # captcha_solver \/ solver_page' # solver_page)
                      => /\ auto_solve_captchas /\ captcha_solver'
                         /\ res'[t] = "ok"
                         /\ agent_current_page' # None
                         /\ solver_page' = agent_current_page'
                         /\ cstate'[PageContext(agent_current_page')] = "open"
                /\ res'[t] = "raised" => UNCHANGED <<captcha_solver, solver_page>>]_vars
    /\ [](~auto_solve_captchas => (~captcha_solver /\ solver_page = None))

\* a start() with auto-solving enabled has returned the session READY on an
\* open page although no solver could be constructed
C39_Witness ==
    /\ auto_solve_captchas /\ ~captcha_solver
    /\ initialized /\ agent_current_page # None
    /\ cstate[PageContext(agent_current_page)] = "open"
    /\ nStop = 0 /\ ~fault
    /\ \E t \in Tasks : op[t] = "start" /\ pc[t] = "idle" /\ res[t] = "ok"

\* C40: solve_captchas_manually and wait_for_captcha_resolution never raise.
\* A call that awaited the solver returns the solver's boolean, and False when
\* the solver raised; a call that returns without awaiting the solver returns
\* False, and does so only without a current page or without a solver; a call
\* made without a current page creates no solver and enters none.
C40_CaptchaMethodsNeverRaise ==
    /\ [](\A t \in Tasks : cres[t] # "raised")
    /\ [][\A t \in Tasks :
            /\ (cpc[t] = "solver" /\ cpc'[t] = "idle")
                  => cres'[t] = (IF sres[t] = "true" THEN "true" ELSE "false")
            /\ (capCalls' = capCalls + 1 /\ cpc[t] = "idle" /\ cpc'[t] = "idle"
                /\ cres'[t] # cres[t])
                  => /\ cres'[t] = "false"
                     /\ agent_current_page = None \/ ~captcha_solver'
            /\ (capCalls' = capCalls + 1 /\ agent_current_page = None)
                  => /\ UNCHANGED <<captcha_solver, solver_page, solver_key, spc, sowner,
                                    cpc, sattempts>>
                     /\ \E u \in Tasks : cop'[u] # "none" /\ cres'[u] = "false"]_vars

\* a manual call returned False because the solver raised, and a wait returned
\* the solver's True
C40_Witness ==
    \E t, j \in Tasks :
        /\ cop[t] = "manual" /\ cpc[t] = "idle" /\ sres[t] = "raised" /\ cres[t] = "false"
        /\ cop[j] = "wait" /\ cpc[j] = "idle" /\ sres[j] = "true" /\ cres[j] = "true"

====
